---- MODULE Spec2Model ----
(***************************************************************************)
(* Engram memory core: the memories table with its full-text index, the    *)
(* idempotency ledger, the metrics log, and the remember / recall / forget *)
(* tools with the decay maintenance command, as a state machine.           *)
(*                                                                         *)
(* Conventions.  NULL stands for SQL NULL and for a JavaScript undefined   *)
(* optional field where the value is text (ids included); NIL stands for   *)
(* the same where the value is a buffer, a JSON document, an object or a   *)
(* boxed number <<n>>.  Strengths are in thousandths (1000 = 1.0).  The    *)
(* clock                                                                   *)
(* counts days; two operations in the same tick are less than 0.001 day    *)
(* apart (the "just accessed" rule of calculateDecayedStrength).           *)
(* An async tool that awaits embed() is two steps: the part before the     *)
(* await (Begin) and the part after it (Finish); other requests may run in *)
(* between.  An embedding is abstracted to the bag of words it was         *)
(* computed from.                                                          *)
(***************************************************************************)
EXTENDS Integers, Sequences, FiniteSets, Bags, TLC

VARIABLES
    memories,   \* table memories: id -> row
    fts,        \* table memories_fts: id -> indexed content
    ledger,     \* table idempotency_ledger: <<key, operation, scope_key>> -> result_json
    metrics,    \* table metrics: bag of metric events
    features,   \* config.features as getConfig() reads it at each request
    now,        \* wall clock, in days
    nextId,     \* number of ids crypto.randomUUID() has produced
    inflight,   \* slot -> the tool call suspended at its await, or Idle
    ret,        \* what the step that led to this state returned to its caller
    daemon,     \* the PID file, the spawned server processes, the port, and the start/stop/restart commands in progress
    database,   \* the database file: whether it is open, and the columns, primary key and rows of its tables
    embeddings, \* module embeddings.ts: embedder, isInitializing, initPromise, the loads and the callers
    firstId,    \* history: <<key, scope_key>> -> id the first successful keyed remember returned
    lastDone,   \* history: <<key, scope_key>> -> id and status of the latest keyed remember that wrote a memory
    lastWrite,  \* history: <<key, scope_key>> -> id and status of the latest remember that wrote the ledger
    upsertChain,\* history: <<key, scope_key>> -> id the first upsert returned since that row was deleted
    decayRuns,  \* number of times `engram decay --apply` has run
    overlapped, \* history: <<key, scope_key>> pairs two calls carried at once, or forget cut into
    plain       \* history: <<key, scope_key>> pairs a remember without upsert has carried

vars == <<memories, fts, ledger, metrics, features, now, nextId, inflight, ret, embeddings,
          database, daemon,
          decayRuns, firstId, lastDone, lastWrite, upsertChain, overlapped, plain>>

-----------------------------------------------------------------------------
(* Bounds of the model *)

MaxId == 2          \* ids crypto.randomUUID() may hand out
MaxTime == 1        \* days the clock may advance
MaxMetrics == 3     \* metric events the log may hold
MaxInFlight == 2    \* tool calls that may be suspended at an await at once
MaxDecayRuns == 1   \* runs of the decay command
MaxDecayApplies == 2 \* runs of the decay command where it is run again
MaxLimitId == 3     \* ids randomUUID() may hand out where the limit of recall is at stake
MaxLimitMetrics == 4 \* metric events the log may hold there
MaxCommands == 2    \* start/stop/restart commands that may run at once
MaxRuns == 3        \* commands issued in all
MaxPids == 3        \* server processes spawned in all
MaxLongMetrics == 4 \* metric events the log may hold in the long runs
MaxLongTime == 2    \* days the clock may advance in the long runs
MaxDays == 3        \* days since the last access, for the decay function alone
MaxCount == 3       \* access counts, for the decay function alone
MaxLoads == 3       \* model loads pipeline() may be asked for
MaxCallers == 3     \* callers of getEmbedder() that may run at once
MaxOpens == 3       \* times the database file may be opened

(* Program constants, in thousandths *)
DefaultStrength == 1000
AccessBoostStrength == 1000
DecayRate == 950
DefaultMinStrength == 100
DefaultRecallLimit == 10

NULL == "null"
NIL == <<>>
GlobalScopeKey == "__global__"

Keys == {"k1"}
Scopes == {"A", "B"}
Contents == {"alpha", "alpha beta"}
Categories == {"fact"}
Metadatas == {"meta1"}
Queries == {"", "alpha", "beta"}

Opt(S) == S \cup {NULL}

\* crypto.randomUUID(): the n-th id handed out.
randomUUID(n) == <<"m1", "m2", "m3", "m4", "m5">>[n]
Ids == {randomUUID(n) : n \in 1..MaxId}

Idle == [kind |-> "idle"]
Slots == 1..MaxInFlight

-----------------------------------------------------------------------------
(* Pure helpers *)

\* The words of a text, as FTS5's tokenizer and the embedder see them.
Words(text) ==
    CASE text = "alpha" -> {"alpha"}
      [] text = "beta" -> {"beta"}
      [] text = "alpha beta" -> {"alpha", "beta"}
      [] OTHER -> {}

\* A test for the empty query that does not trim.
IsBlankUntrimmed(query) == query = ""

\* input.query.trim() is empty
IsBlank(query) == Words(query) = {}

\* JSON.stringify of a value: a tagged copy, distinct from the value itself.
JsonStringify(v) == <<"json", v>>

\* JSON.parse of what JsonStringify wrote.
JsonParse(s) == s[2]

\* A result_json that is no JSON text, and whether JSON.parse throws on s.
CorruptJson == <<"corrupt">>
JsonParseThrows(s) == s[1] # "json"

normalizeScopeKey(scope_id) == IF scope_id = NULL THEN GlobalScopeKey ELSE scope_id

\* embed(text) when the model loads and runs: the vector of the text.
EmbedVector(text) == <<"vec", Words(text)>>

\* cosineSimilarity of two unit vectors, in thousandths (squared cosine of the
\* bag-of-words vectors, which orders pairs as the cosine does).
cosineSimilarity(a, b) ==
    LET wa == a[2]
        wb == b[2]
        common == Cardinality(wa \cap wb)
    IN IF wa = {} \/ wb = {} THEN 0
       ELSE (common * common * 1000) \div (Cardinality(wa) * Cardinality(wb))

Min(a, b) == IF a < b THEN a ELSE b
Max(a, b) == IF a > b THEN a ELSE b

\* Math.pow(decayRate, days) for whole days, in thousandths.
RECURSIVE PowRate(_)
PowRate(days) ==
    IF days <= 0 THEN 1000 ELSE (PowRate(days - 1) * DecayRate) \div 1000

\* Math.log(n) / Math.log(2), in thousandths.
RECURSIVE Log2Milli(_)
Log2Milli(n) ==
    CASE n <= 1 -> 0
      [] n = 3 -> 1585
      [] n = 5 -> 2322
      [] n = 7 -> 2807
      [] OTHER -> 1000 + Log2Milli(n \div 2)

\* A decayed strength that is not capped at 1.0.
calculateDecayedStrengthUncapped(lastAccessed, accessCount, baseStrength, t) ==
    LET daysSinceAccess == t - lastAccessed
    IN IF daysSinceAccess < 1
       THEN baseStrength
       ELSE (((baseStrength * PowRate(daysSinceAccess)) \div 1000)
                * Log2Milli(accessCount + 1)) \div 1000

\* calculateDecayedStrength(lastAccessed, accessCount, baseStrength) at time t.
calculateDecayedStrength(lastAccessed, accessCount, baseStrength, t) ==
    LET daysSinceAccess == t - lastAccessed
    IN IF daysSinceAccess < 1
       THEN Min(baseStrength, 1000)
       ELSE LET decayFactor == PowRate(daysSinceAccess)
                normalizedBoost == Log2Milli(accessCount + 1)
                decayedStrength ==
                    (((baseStrength * decayFactor) \div 1000) * normalizedBoost) \div 1000
            IN Min(Max(decayedStrength, 0), 1000)

\* Every enumeration of the finite set S as a sequence.
Perms(S) ==
    {s \in [1..Cardinality(S) -> S] :
        \A i, j \in 1..Cardinality(S) : i # j => s[i] # s[j]}

\* The first n elements of s (SQL LIMIT n, Array.slice(0, n)).
Take(s, n) == SubSeq(s, 1, Min(n, Len(s)))

Range(s) == {s[i] : i \in DOMAIN s}

-----------------------------------------------------------------------------
(* Storage: src/db/index.ts and schema.sql *)

EmptyTable == <<>>

\* INSERT INTO memories ... RETURNING *, with the column defaults of schema.sql.
createMemory(mems, input, t) ==
    (input.id :> [id |-> input.id,
                  content |-> input.content,
                  category |-> input.category,
                  scope_id |-> input.scope_id,
                  chat_id |-> input.chat_id,
                  thread_id |-> input.thread_id,
                  task_id |-> input.task_id,
                  metadata_json |-> input.metadata_json,
                  idempotency_key |-> input.idempotency_key,
                  created_at |-> t,
                  updated_at |-> t,
                  last_accessed |-> t,
                  access_count |-> 1,
                  strength |-> DefaultStrength,
                  embedding |-> input.embedding]) @@ mems

\* An access update that leaves the counter alone.
updateMemoryAccessTimeOnly(mems, id, t) ==
    IF id \in DOMAIN mems THEN [mems EXCEPT ![id].last_accessed = t] ELSE mems

\* UPDATE memories SET last_accessed = datetime('now'),
\*                     access_count = access_count + 1 WHERE id = $id
updateMemoryAccess(mems, id, t) ==
    IF id \in DOMAIN mems
    THEN [mems EXCEPT ![id].last_accessed = t, ![id].access_count = @ + 1]
    ELSE mems

\* UPDATE memories SET strength = $strength WHERE id = $id
updateMemoryStrength(mems, id, strength) ==
    IF id \in DOMAIN mems THEN [mems EXCEPT ![id].strength = strength] ELSE mems

\* update_memory_content: full replace of content, category, metadata and
\* embedding, and updated_at; everything else preserved.
updateMemoryContent(mems, id, upd, t) ==
    IF id \in DOMAIN mems
    THEN [mems EXCEPT ![id].content = upd.content,
                      ![id].category = upd.category,
                      ![id].metadata_json = upd.metadata_json,
                      ![id].embedding = upd.embedding,
                      ![id].updated_at = t]
    ELSE mems

\* find_by_idempotency_key(key, scope_id?): the rows a scoped lookup matches.
findMemoryByIdempotencyKey(mems, key, scope_id) ==
    {id \in DOMAIN mems :
        /\ key # NULL
        /\ mems[id].idempotency_key = key
        /\ mems[id].scope_id = scope_id}

\* DELETE FROM memories WHERE id = $id [AND scope_id = $scope_id]
DeleteMatchesAny(m, id) == m.id = id
\* A scoped delete whose statement leaves the scope_id clause out.
DeleteMatchesScopedByIdOnly(m, id, scope_id) == m.id = id
DeleteMatchesScoped(m, id, scope_id) == m.id = id /\ m.scope_id = scope_id
\* delete_memory with scope_guard = unscoped: id and scope_id IS NULL
DeleteMatchesUnscoped(m, id) == m.id = id /\ m.scope_id = NULL

\* The ids deleteMemoryById(id, scope) removes.
deleteMemoryById(mems, id, scope) ==
    {i \in DOMAIN mems :
        CASE scope.mode = "any" -> DeleteMatchesAny(mems[i], id)
          [] scope.mode = "scoped" -> DeleteMatchesScoped(mems[i], id, scope.scope_id)
          [] OTHER -> DeleteMatchesUnscoped(mems[i], id)}

RemoveRows(table, ids) == [i \in DOMAIN table \ ids |-> table[i]]

\* An index without its delete trigger: the rows of deleted memories stay.
FtsAfterWithoutDeleteTrigger(index, old, new) ==
    [i \in DOMAIN new \cup DOMAIN index |->
        IF i \in DOMAIN new /\ ~(i \in DOMAIN old /\ old[i] = new[i] /\ i \in DOMAIN index)
        THEN new[i].content ELSE index[i]]

\* Triggers memories_fts_insert / _update / _delete: the index row of each
\* memory is rewritten from the row's content after every write to the table.
FtsAfter(index, old, new) ==
    [i \in DOMAIN new |->
        IF i \in DOMAIN old /\ old[i] = new[i] /\ i \in DOMAIN index
        THEN index[i] ELSE new[i].content]

\* Filters that leave the scope_id clause out.
applyMemoryFiltersWithoutScope(filters, m) ==
    /\ filters.chat_id # NULL => m.chat_id = filters.chat_id
    /\ filters.thread_id # NULL => m.thread_id = filters.thread_id
    /\ filters.task_id # NULL => m.task_id = filters.task_id

\* applyMemoryFilters: each filter that is set adds an equality clause.
applyMemoryFilters(filters, m) ==
    /\ filters.scope_id # NULL => m.scope_id = filters.scope_id
    /\ filters.chat_id # NULL => m.chat_id = filters.chat_id
    /\ filters.thread_id # NULL => m.thread_id = filters.thread_id
    /\ filters.task_id # NULL => m.task_id = filters.task_id

NoFilters == [scope_id |-> NULL, chat_id |-> NULL, thread_id |-> NULL, task_id |-> NULL]

\* The orders SQL may return the rows ids in under an ORDER BY whose strict
\* order is the set of pairs before: ties are left to the engine.
Orderings(ids, before) ==
    {s \in Perms(ids) :
        \A i, j \in 1..Len(s) : i < j => <<s[j], s[i]>> \notin before}

\* ORDER BY strength DESC, last_accessed DESC
ByStrengthRecency(a, b) ==
    \/ a.strength > b.strength
    \/ a.strength = b.strength /\ a.last_accessed > b.last_accessed

\* SELECT * FROM memories WHERE filters ORDER BY strength DESC, last_accessed DESC LIMIT $limit
getAllMemories(mems, limit, filters) ==
    LET ids == {i \in DOMAIN mems : applyMemoryFilters(filters, mems[i])}
        before == {p \in ids \X ids : ByStrengthRecency(mems[p[1]], mems[p[2]])}
    IN {Take(s, limit) : s \in Orderings(ids, before)}

\* bm25(memories_fts) of a matching document: negative, and closer to 0 for a
\* longer document holding the same term.
Bm25(query, content) == 0 - (1000 \div Cardinality(Words(content)))

\* memories_fts MATCH $query
FtsMatch(query, content) == Words(query) \subseteq Words(content)

\* searchMemories(query, limit, filters): the result lists the query may give,
\* each result a row id with its rank.
searchMemories(mems, index, query, limit, filters) ==
    IF IsBlank(query)
    THEN {[k \in DOMAIN s |-> [id |-> s[k], rank |-> 0]] :
             s \in getAllMemories(mems, limit, filters)}
    ELSE LET ids == {i \in DOMAIN mems \cap DOMAIN index :
                        /\ FtsMatch(query, index[i])
                        /\ applyMemoryFilters(filters, mems[i])}
             before ==
                 {p \in ids \X ids :
                     \/ Bm25(query, index[p[1]]) < Bm25(query, index[p[2]])
                     \/ /\ Bm25(query, index[p[1]]) = Bm25(query, index[p[2]])
                        /\ ByStrengthRecency(mems[p[1]], mems[p[2]])}
         IN {[k \in DOMAIN s |-> [id |-> s[k], rank |-> Bm25(query, index[s[k]])]] :
                s \in {Take(o, limit) : o \in Orderings(ids, before)}}

\* A MemoryWithEmbedding as recall reads it: the columns of the row,
\* last_accessed among them.
MemoryWithEmbedding(m) == m

\* SELECT ... FROM memories WHERE embedding IS NOT NULL AND filters: the rows,
\* in whatever order the engine returns them.
getAllMemoriesWithEmbeddings(mems, filters) ==
    LET ids == {i \in DOMAIN mems :
                   /\ mems[i].embedding # NIL
                   /\ applyMemoryFilters(filters, mems[i])}
        noOrder == {}
    IN {[k \in DOMAIN s |-> MemoryWithEmbedding(mems[s[k]])] :
           s \in Orderings(ids, noOrder)}

\* A lookup that leaves the scope out of the ledger key.
getIdempotencyResultAnyScope(led, key, operation, scope_id) ==
    LET pk == <<key, operation, GlobalScopeKey>>
    IN IF pk \in DOMAIN led THEN JsonParse(led[pk].result_json) ELSE NIL

\* SELECT result_json FROM idempotency_ledger WHERE key, operation, scope_key;
\* JSON.parse of the row; NIL (null) when there is none, and NIL again from
\* the catch block when the row cannot be parsed.
getIdempotencyResult(led, key, operation, scope_id) ==
    LET pk == <<key, operation, normalizeScopeKey(scope_id)>>
    IN IF pk \notin DOMAIN led THEN NIL
       ELSE IF JsonParseThrows(led[pk].result_json) THEN NIL
       ELSE JsonParse(led[pk].result_json)

\* INSERT OR REPLACE INTO idempotency_ledger (key, operation, scope_key, scope_id, result_json)
saveIdempotencyResult(led, key, operation, scope_id, result) ==
    LET pk == <<key, operation, normalizeScopeKey(scope_id)>>
        row == [scope_id |-> scope_id, result_json |-> JsonStringify(result)]
    IN [p \in DOMAIN led \cup {pk} |-> IF p = pk THEN row ELSE led[p]]

\* INSERT INTO metrics (...)
logMetric(log, metric) == log (+) SetToBag({metric})

Metric(event, memory_id, result_count, was_fallback) ==
    [event |-> event, memory_id |-> memory_id,
     result_count |-> result_count,
     was_fallback |-> IF was_fallback THEN <<1>> ELSE NIL]

\* metric.session_id ?? null, for a request that may carry a session_id
SessionOf(input) ==
    IF "session_id" \in DOMAIN input THEN input.session_id ELSE NULL

\* logMetric({ session_id: input.session_id, event: "recall", query,
\*             result_count, was_fallback })
RecallMetric(input, result_count, was_fallback) ==
    IF "session_id" \in DOMAIN input
    THEN [session_id |-> input.session_id]
            @@ Metric("recall", NULL, <<result_count>>, was_fallback)
    ELSE Metric("recall", NULL, <<result_count>>, was_fallback)

\* The rows of log that SELECT COUNT(*) ... WHERE [session_id = $session_id
\* AND] event = $event counts; the session clause is added for a non-empty
\* session_id only.
MetricRows(log, session_id, event) ==
    {m \in BagToSet(log) :
        /\ m.event = event
        /\ (session_id # NULL /\ session_id # "") => SessionOf(m) = session_id}

\* COUNT(*) over rows of log
CountRows(log, rows) ==
    BagCardinality([m \in rows |-> CopiesIn(m, log)])

\* A summary that counts the events of every session.
getMetricsSummaryOfAllSessions(log, session_id) ==
    LET recalls == MetricRows(log, NULL, "recall")
        total == CountRows(log, recalls)
    IN [total_remembers |-> CountRows(log, MetricRows(log, NULL, "remember")),
        total_recalls |-> total,
        recall_hit_rate |->
            IF total > 0
            THEN (CountRows(log, {m \in recalls : m.result_count[1] > 0}) * 1000)
                     \div total
            ELSE 0,
        fallback_rate |->
            IF total > 0
            THEN (CountRows(log, {m \in recalls : m.was_fallback = <<1>>}) * 1000)
                     \div total
            ELSE 0]

\* getMetricsSummary(session_id?): the counts, and the rates in thousandths.
getMetricsSummary(log, session_id) ==
    LET recalls == MetricRows(log, session_id, "recall")
        total == CountRows(log, recalls)
    IN [total_remembers |-> CountRows(log, MetricRows(log, session_id, "remember")),
        total_recalls |-> total,
        recall_hit_rate |->
            IF total > 0
            THEN (CountRows(log, {m \in recalls : m.result_count[1] > 0}) * 1000)
                     \div total
            ELSE 0,
        fallback_rate |->
            IF total > 0
            THEN (CountRows(log, {m \in recalls : m.was_fallback = <<1>>}) * 1000)
                     \div total
            ELSE 0]

-----------------------------------------------------------------------------
(* Inputs *)

NoScope == [scope_id |-> NULL, chat_id |-> NULL, thread_id |-> NULL, task_id |-> NULL]

ScopeInputs ==
    {NoScope,
     [scope_id |-> "A", chat_id |-> NULL, thread_id |-> NULL, task_id |-> NULL],
     [scope_id |-> "B", chat_id |-> "chat1", thread_id |-> "thread1", task_id |-> "task1"]}

\* What a caller may store: full details, or content alone.
DetailInputs ==
    {[content |-> "alpha", category |-> "fact", metadata |-> "meta1"],
     [content |-> "alpha beta", category |-> NULL, metadata |-> NULL]}

RememberInputs ==
    {[content |-> d.content, category |-> d.category, metadata |-> d.metadata,
      scope_id |-> sc.scope_id, chat_id |-> sc.chat_id,
      thread_id |-> sc.thread_id, task_id |-> sc.task_id,
      idempotency_key |-> k, upsert |-> u] :
        d \in DetailInputs, sc \in ScopeInputs, k \in Opt(Keys), u \in BOOLEAN}

ForgetInputs == [id : Ids, scope_id : Opt(Scopes)]

Pairs == Keys \X ({GlobalScopeKey} \cup Scopes)

-----------------------------------------------------------------------------
(* What a step returns *)

NoRet ==
    [op |-> "none", phase |-> "done", ok |-> TRUE, error |-> NULL,
     id |-> NULL, status |-> NULL, deleted |-> FALSE,
     memories |-> <<>>, fallback_mode |-> FALSE,
     input |-> NIL, config |-> NIL, http |-> 0,
     pair |-> NIL, peer |-> NULL, at |-> NIL, before |-> NIL,
     mode |-> "none", gone |-> {}, summary |-> NIL, tools |-> <<>>]

\* routeRequest, POST /remember: an error result is a 400, a value a 200.
HttpRememberStatus(ok) == IF ok THEN 200 ELSE 400

\* What a remember step returns for call: phase "await" when it suspends.
\* before is the row an update found, as it was just before the update.
RememberRet(call, phase, ok, error, id, status, before) ==
    [NoRet EXCEPT !.op = "remember", !.phase = phase, !.ok = ok, !.error = error,
                  !.id = id, !.status = status,
                  !.input = call.input, !.config = call.config,
                  !.http = IF phase = "done" THEN HttpRememberStatus(ok) ELSE 0,
                  !.pair = call.pair, !.peer = call.peer, !.at = call.at,
                  !.before = before]

-----------------------------------------------------------------------------
(* remember: src/tools/remember.ts, remember() *)

\* A scope discriminator that leaves the scope out.
ScopeIdForIdempotencyIgnored(config, input) == NULL

\* config.features.scopes ? input.scope_id : undefined
ScopeIdForIdempotency(config, input) ==
    IF config.scopes THEN input.scope_id ELSE NULL

PairOf(config, input) ==
    <<input.idempotency_key, normalizeScopeKey(ScopeIdForIdempotency(config, input))>>

\* An upsert path that does not check for the key.
UpsertKeyUnchecked(input) == FALSE

\* if (input.upsert) { if (!input.idempotency_key) return err(...) }
UpsertMissingKey(input) == input.upsert /\ input.idempotency_key = NULL

\* !input.upsert && config.features.idempotency && input.idempotency_key
ReplayApplies(config, input) ==
    ~input.upsert /\ config.idempotency /\ input.idempotency_key # NULL

\* A replay that reports the status of an update.
ReplayOutputUpdated(cached) == [id |-> cached.id, status |-> "updated"]

\* return ok({ id: cachedResult.value.id, status: "created" })
ReplayOutput(cached) == [id |-> cached.id, status |-> "created"]

\* input.metadata ? JSON.stringify(input.metadata) : undefined
MetadataJson(input) ==
    IF input.metadata # NULL THEN JsonStringify(input.metadata) ELSE NIL

\* embeddingResult.ok ? embeddingToBuffer(embeddingResult.value) : undefined
EmbeddingBuffer(input, embedOk) ==
    IF embedOk THEN EmbedVector(input.content) ELSE NIL

\* A key stored only when the idempotency flag is on.
StoredIdempotencyKeyIfEnabled(config, input) ==
    IF config.idempotency THEN input.idempotency_key ELSE NULL

\* config.features.idempotency || input.upsert ? input.idempotency_key : undefined
StoredIdempotencyKey(config, input) ==
    IF config.idempotency \/ input.upsert THEN input.idempotency_key ELSE NULL

\* An update written as INSERT OR REPLACE: the row is stored anew.
RememberUpdateByReplace(mems, id, input, embeddingBuffer, t) ==
    IF id \in DOMAIN mems
    THEN createMemory(RemoveRows(mems, {id}),
             [id |-> id,
              content |-> input.content,
              category |-> input.category,
              scope_id |-> mems[id].scope_id,
              chat_id |-> mems[id].chat_id,
              thread_id |-> mems[id].thread_id,
              task_id |-> mems[id].task_id,
              metadata_json |-> MetadataJson(input),
              idempotency_key |-> mems[id].idempotency_key,
              embedding |-> embeddingBuffer], t)
    ELSE mems

\* An update that keeps what the call leaves out (COALESCE of new and old).
RememberUpdateMerging(mems, id, input, embeddingBuffer, t) ==
    IF id \in DOMAIN mems
    THEN updateMemoryContent(mems, id,
             [content |-> input.content,
              category |-> IF input.category = NULL
                           THEN mems[id].category ELSE input.category,
              metadata_json |-> IF input.metadata = NULL
                                THEN mems[id].metadata_json ELSE MetadataJson(input),
              embedding |-> IF embeddingBuffer = NIL
                            THEN mems[id].embedding ELSE embeddingBuffer], t)
    ELSE mems

\* updateMemoryContent(existing.id, { content, category, metadata_json, embedding })
RememberUpdate(mems, id, input, embeddingBuffer, t) ==
    updateMemoryContent(mems, id,
        [content |-> input.content,
         category |-> input.category,
         metadata_json |-> MetadataJson(input),
         embedding |-> embeddingBuffer], t)

\* createMemory({ id, content, category, scope fields, metadata_json, idempotency_key, embedding })
RememberCreate(mems, id, config, input, embeddingBuffer, t) ==
    createMemory(mems,
        [id |-> id,
         content |-> input.content,
         category |-> input.category,
         scope_id |-> IF config.scopes THEN input.scope_id ELSE NULL,
         chat_id |-> IF config.scopes THEN input.chat_id ELSE NULL,
         thread_id |-> IF config.scopes THEN input.thread_id ELSE NULL,
         task_id |-> IF config.scopes THEN input.task_id ELSE NULL,
         metadata_json |-> MetadataJson(input),
         idempotency_key |-> StoredIdempotencyKey(config, input),
         embedding |-> embeddingBuffer], t)

\* if (config.features.idempotency) saveIdempotencyResult(...) on the update path
LedgerAfterUpdate(led, config, input, id) ==
    IF config.idempotency
    THEN saveIdempotencyResult(led, input.idempotency_key, "remember",
                               ScopeIdForIdempotency(config, input), [id |-> id])
    ELSE led

\* if (config.features.idempotency && input.idempotency_key) saveIdempotencyResult(...)
LedgerAfterCreate(led, config, input, id) ==
    IF config.idempotency /\ input.idempotency_key # NULL
    THEN saveIdempotencyResult(led, input.idempotency_key, "remember",
                               ScopeIdForIdempotency(config, input), [id |-> id])
    ELSE led

FreeSlots == {s \in Slots : inflight[s] = Idle}
Busy == {s \in Slots : inflight[s] # Idle}

\* Room in a metrics log of at most maxMetrics events for this call and for
\* every suspended one.
MetricsRoomWithin(maxMetrics) ==
    BagCardinality(metrics) + Cardinality(Busy) < maxMetrics

MetricsRoom == MetricsRoomWithin(MaxMetrics)

\* The suspended remember calls that carry the key and scope of pair.
RememberInFlight(pair) ==
    {s \in Busy : inflight[s].kind = "remember" /\ inflight[s].pair = pair}

Keyed(pair) == pair[1] # NULL

NoResult == [id |-> NULL, status |-> NULL]

\* History of the key and scope of pair, as a call that starts now finds it.
HistoryAt(pair) ==
    IF Keyed(pair)
    THEN [first |-> firstId[pair], write |-> lastWrite[pair], done |-> lastDone[pair]]
    ELSE [first |-> NULL, write |-> NoResult, done |-> NoResult]

\* A remember call in progress; suspended at `await embed(input.content)` on
\* the update and create branches.
RememberCall(input, config, branch, id) ==
    [kind |-> "remember", input |-> input, config |-> config,
     branch |-> branch, id |-> id, pair |-> PairOf(config, input), peer |-> NULL,
     at |-> HistoryAt(PairOf(config, input))]

\* History kept when a keyed remember starts: whether it overlaps a call on
\* the same key and scope, and whether it is a plain (non-upsert) one.
HistoryAtBegin(input, pair) ==
    /\ overlapped' = IF Keyed(pair) /\ RememberInFlight(pair) # {}
                     THEN overlapped \cup {pair} ELSE overlapped
    /\ plain' = IF Keyed(pair) /\ ~input.upsert THEN plain \cup {pair} ELSE plain

\* upsert without idempotency_key: the error result, nothing written.
RememberReject(input) ==
    /\ UpsertMissingKey(input)
    /\ ret' = RememberRet(RememberCall(input, features, "reject", NULL), "done", FALSE,
                          "upsert requires idempotency_key", NULL, NULL, NIL)
    /\ UNCHANGED <<daemon, database, embeddings, decayRuns, memories, fts, ledger, metrics, features, now, nextId, inflight,
                   firstId, lastDone, lastWrite, upsertChain, overlapped, plain>>

\* Non-upsert idempotency replay: the cached result is returned at once.
RememberReplay(input) ==
    LET config == features
        pair == PairOf(config, input)
        cached == getIdempotencyResult(ledger, input.idempotency_key, "remember",
                                       ScopeIdForIdempotency(config, input))
    IN /\ ReplayApplies(config, input)
       /\ cached # NIL
       /\ ret' = RememberRet(RememberCall(input, config, "replay", NULL), "done", TRUE,
                             NULL, ReplayOutput(cached).id, ReplayOutput(cached).status,
                             NIL)
       /\ HistoryAtBegin(input, pair)
       /\ UNCHANGED <<daemon, database, embeddings, decayRuns, memories, fts, ledger, metrics, features, now, nextId, inflight,
                      firstId, lastDone, lastWrite, upsertChain>>

\* Upsert that finds a memory by key and scope: suspended before the update.
RememberBeginUpdate(input) ==
    LET config == features
        pair == PairOf(config, input)
        existing == findMemoryByIdempotencyKey(memories, input.idempotency_key,
                                               ScopeIdForIdempotency(config, input))
    IN /\ input.upsert
       /\ ~UpsertMissingKey(input)
       /\ MetricsRoom
       /\ FreeSlots # {}
       /\ \E e \in existing :
            LET slot == CHOOSE s \in FreeSlots : \A o \in FreeSlots : s <= o
            IN inflight' = [inflight EXCEPT ![slot] = RememberCall(input, config, "update", e)]
       /\ HistoryAtBegin(input, pair)
       /\ ret' = RememberRet(RememberCall(input, config, "update", NULL), "await", TRUE,
                             NULL, NULL, NULL, NIL)
       /\ UNCHANGED <<daemon, database, embeddings, decayRuns, memories, fts, ledger, metrics, features, now, nextId,
                      firstId, lastDone, lastWrite, upsertChain>>

\* Create path: a new id, suspended before the insert.
RememberBeginCreateUpTo(input, maxMetrics, maxId) ==
    LET config == features
        pair == PairOf(config, input)
        existing == findMemoryByIdempotencyKey(memories, input.idempotency_key,
                                               ScopeIdForIdempotency(config, input))
        cached == getIdempotencyResult(ledger, input.idempotency_key, "remember",
                                       ScopeIdForIdempotency(config, input))
        slot == CHOOSE s \in FreeSlots : \A o \in FreeSlots : s <= o
    IN /\ ~UpsertMissingKey(input)
       /\ input.upsert => existing = {}
       /\ ReplayApplies(config, input) => cached = NIL
       /\ MetricsRoomWithin(maxMetrics)
       /\ FreeSlots # {}
       /\ nextId < maxId
       /\ nextId' = nextId + 1
       /\ inflight' = [inflight EXCEPT ![slot] = RememberCall(input, config, "create", randomUUID(nextId + 1))]
       /\ HistoryAtBegin(input, pair)
       /\ ret' = RememberRet(RememberCall(input, config, "create", NULL), "await", TRUE,
                             NULL, NULL, NULL, NIL)
       /\ UNCHANGED <<daemon, database, embeddings, decayRuns, memories, fts, ledger, metrics, features, now,
                      firstId, lastDone, lastWrite, upsertChain>>

RememberBeginCreateWithin(input, maxMetrics) ==
    RememberBeginCreateUpTo(input, maxMetrics, MaxId)

RememberBeginCreate(input) == RememberBeginCreateWithin(input, MaxMetrics)

\* History kept when a remember returns id with status, having written the ledger or not.
HistoryAfter(call, id, status, wroteLedger) ==
    LET pair == call.pair
    IN /\ firstId' = IF Keyed(pair) /\ call.config.idempotency /\ firstId[pair] = NULL
                     THEN [firstId EXCEPT ![pair] = id] ELSE firstId
       /\ lastWrite' = IF wroteLedger
                       THEN [lastWrite EXCEPT ![pair] = [id |-> id, status |-> status]]
                       ELSE lastWrite
       /\ lastDone' = IF Keyed(pair)
                      THEN [lastDone EXCEPT ![pair] = [id |-> id, status |-> status]]
                      ELSE lastDone
       /\ upsertChain' = IF Keyed(pair) /\ call.input.upsert /\ upsertChain[pair] = NULL
                         THEN [upsertChain EXCEPT ![pair] = id] ELSE upsertChain

\* The slots after the call in slot returned id: the slot is free, and the calls
\* still suspended on the same key, scope and upsert flag have seen a peer return.
SlotsAfter(slot, id) ==
    [s \in Slots |->
        IF s = slot THEN Idle
        ELSE IF /\ inflight[s] # Idle
                /\ inflight[s].kind = "remember"
                /\ Keyed(inflight[slot].pair)
                /\ inflight[s].pair = inflight[slot].pair
                /\ inflight[s].input.upsert = inflight[slot].input.upsert
                /\ inflight[s].peer = NULL
             THEN [inflight[s] EXCEPT !.peer = id]
             ELSE inflight[s]]

\* After the await on the update path: update, metric, ledger, {id, "updated"}.
RememberFinishUpdate(slot, embedOk) ==
    LET call == inflight[slot]
        buffer == EmbeddingBuffer(call.input, embedOk)
        mems == RememberUpdate(memories, call.id, call.input, buffer, now)
    IN /\ call # Idle
       /\ call.kind = "remember"
       /\ call.branch = "update"
       /\ memories' = mems
       /\ fts' = FtsAfter(fts, memories, mems)
       /\ metrics' = logMetric(metrics, Metric("upsert", call.id, NIL, FALSE))
       /\ ledger' = LedgerAfterUpdate(ledger, call.config, call.input, call.id)
       /\ HistoryAfter(call, call.id, "updated", call.config.idempotency)
       /\ inflight' = SlotsAfter(slot, call.id)
       /\ ret' = RememberRet(call, "done", TRUE, NULL, call.id, "updated",
                             IF call.id \in DOMAIN memories THEN memories[call.id] ELSE NIL)
       /\ UNCHANGED <<daemon, database, embeddings, decayRuns, features, now, nextId, overlapped, plain>>

\* After the await on the create path: insert, metric, ledger, {id, "created"}.
RememberFinishCreate(slot, embedOk) ==
    LET call == inflight[slot]
        buffer == EmbeddingBuffer(call.input, embedOk)
        mems == RememberCreate(memories, call.id, call.config, call.input, buffer, now)
    IN /\ call # Idle
       /\ call.kind = "remember"
       /\ call.branch = "create"
       /\ memories' = mems
       /\ fts' = FtsAfter(fts, memories, mems)
       /\ metrics' = logMetric(metrics, Metric("remember", call.id, NIL, FALSE))
       /\ ledger' = LedgerAfterCreate(ledger, call.config, call.input, call.id)
       /\ HistoryAfter(call, call.id, "created",
                       call.config.idempotency /\ call.input.idempotency_key # NULL)
       /\ inflight' = SlotsAfter(slot, call.id)
       /\ ret' = RememberRet(call, "done", TRUE, NULL, call.id, "created", NIL)
       /\ UNCHANGED <<daemon, database, embeddings, decayRuns, features, now, nextId, overlapped, plain>>

\* Writes in an order that puts the ledger row first.
RememberStepsLedgerFirst(call) == <<"ledger", "memory", "metric">>

\* The writes of remember after its await, in the order of the code, on the
\* update path and on the create path: the memory row, the metric, the ledger
\* row.  Each is one statement, committed on its own.
RememberSteps(call) == <<"memory", "metric", "ledger">>

\* The process dies while the call in slot has made the first done of its
\* writes; every suspended call dies with it and none returns.
RememberCrash(slot, done, embedOk) ==
    LET call == inflight[slot]
        made == {RememberSteps(call)[k] : k \in 1..done}
        buffer == EmbeddingBuffer(call.input, embedOk)
        mems == IF "memory" \notin made THEN memories
                ELSE IF call.branch = "create"
                THEN RememberCreate(memories, call.id, call.config, call.input,
                                    buffer, now)
                ELSE RememberUpdate(memories, call.id, call.input, buffer, now)
    IN /\ call # Idle
       /\ call.kind = "remember"
       /\ done \in 0..Len(RememberSteps(call))
       /\ memories' = mems
       /\ fts' = FtsAfter(fts, memories, mems)
       /\ metrics' = IF "metric" \notin made THEN metrics
                     ELSE logMetric(metrics,
                              Metric(IF call.branch = "create" THEN "remember"
                                     ELSE "upsert", call.id, NIL, FALSE))
       /\ ledger' = IF "ledger" \notin made THEN ledger
                    ELSE IF call.branch = "create"
                    THEN LedgerAfterCreate(ledger, call.config, call.input, call.id)
                    ELSE LedgerAfterUpdate(ledger, call.config, call.input, call.id)
       /\ inflight' = [s \in Slots |-> Idle]
       /\ ret' = [NoRet EXCEPT !.op = "crash", !.ok = FALSE, !.id = call.id,
                               !.input = call.input, !.config = call.config]
       /\ UNCHANGED <<daemon, database, embeddings, decayRuns, features, now, nextId, firstId,
                      lastDone, lastWrite, upsertChain, overlapped, plain>>

-----------------------------------------------------------------------------
(* forget: src/tools/forget.ts *)

\* A guard that deletes by id alone when the request names no scope.
ForgetScopeAnyWhenOmitted(config, input) ==
    IF config.scopes /\ input.scope_id # NULL
    THEN [mode |-> "scoped", scope_id |-> input.scope_id]
    ELSE [mode |-> "any", scope_id |-> NULL]

\* The DeleteScope forget derives from the scopes flag and input.scope_id.
ForgetScope(config, input) ==
    IF ~config.scopes THEN [mode |-> "any", scope_id |-> NULL]
    ELSE IF input.scope_id # NULL THEN [mode |-> "scoped", scope_id |-> input.scope_id]
    ELSE [mode |-> "unscoped", scope_id |-> NULL]

\* A metric logged only for a forget that deleted something.
ForgetLogWhenDeleted(log, input, deleted) ==
    IF deleted THEN logMetric(log, Metric("forget", input.id, NIL, FALSE)) ELSE log

\* logMetric({ session_id, event: "forget", memory_id: input.id })
ForgetLog(log, input, deleted) ==
    logMetric(log, Metric("forget", input.id, NIL, FALSE))

\* forget(input): scope guard, delete, metric, { id, deleted }.
Forget(input) ==
    LET config == features
        gone == deleteMemoryById(memories, input.id, ForgetScope(config, input))
        mems == RemoveRows(memories, gone)
        suspended == {inflight[s].pair : s \in {b \in Busy : inflight[b].kind = "remember"}}
    IN /\ BagCardinality(metrics) + Cardinality(Busy) < MaxMetrics
       /\ memories' = mems
       /\ fts' = FtsAfter(fts, memories, mems)
       /\ metrics' = ForgetLog(metrics, input, gone # {})
       /\ ret' = [NoRet EXCEPT !.op = "forget", !.id = input.id,
                               !.deleted = (gone # {}), !.input = input,
                               !.config = config]
       /\ upsertChain' = [p \in Pairs |->
                            IF upsertChain[p] \in gone THEN NULL ELSE upsertChain[p]]
       /\ overlapped' = IF gone # {}
                        THEN overlapped \cup {p \in suspended : Keyed(p)}
                        ELSE overlapped
       /\ UNCHANGED plain
       /\ UNCHANGED <<daemon, database, embeddings, decayRuns, ledger, features, now, nextId, inflight,
                      firstId, lastDone, lastWrite>>

-----------------------------------------------------------------------------
(* decay --apply: src/cli.ts cmdDecay *)

\* Math.abs(m.strength - decayedStrength) > 0.001
NeedsUpdate(m, t) ==
    LET d == calculateDecayedStrength(m.last_accessed, m.access_count, m.strength, t)
    IN m.strength - d > 1 \/ d - m.strength > 1

DecayApplyWithin(maxRuns) ==
    LET mems == [i \in DOMAIN memories |->
                    IF NeedsUpdate(memories[i], now)
                    THEN updateMemoryStrength(memories, i,
                             calculateDecayedStrength(memories[i].last_accessed,
                                 memories[i].access_count, memories[i].strength, now))[i]
                    ELSE memories[i]]
    IN /\ decayRuns < maxRuns
       /\ decayRuns' = decayRuns + 1
       /\ memories' = mems
       /\ fts' = FtsAfter(fts, memories, mems)
       /\ ret' = [NoRet EXCEPT !.op = "decay"]
       /\ UNCHANGED <<daemon, database, embeddings, ledger, metrics, features, now, nextId, inflight,
                      firstId, lastDone, lastWrite, upsertChain, overlapped, plain>>

DecayApply == DecayApplyWithin(MaxDecayRuns)

-----------------------------------------------------------------------------
(* prune: src/cli.ts cmdPrune *)

\* SELECT * FROM memories WHERE strength < $threshold
getMemoriesBelowStrength(mems, threshold) ==
    {id \in DOMAIN mems : mems[id].strength < threshold}

\* DELETE FROM memories WHERE strength < $threshold
pruneMemoriesBelowStrength(mems, threshold) ==
    RemoveRows(mems, {id \in DOMAIN mems : mems[id].strength < threshold})

\* Number.isNaN(threshold) || threshold < 0 || threshold > 1
ThresholdRejected(threshold) == threshold < 0 \/ threshold > 1000

\* if (!dryRun) the loop that stores the decayed strength of each stale row
PersistDecayed(mems, t) ==
    [i \in DOMAIN mems |->
        IF NeedsUpdate(mems[i], t)
        THEN updateMemoryStrength(mems, i,
                 calculateDecayedStrength(mems[i].last_accessed, mems[i].access_count,
                                          mems[i].strength, t))[i]
        ELSE mems[i]]

\* cmdPrune over the table mems at time t: the table it leaves, the ids it
\* lists, the ids it deletes and its exit code.
cmdPrune(mems, dryRun, threshold, t) ==
    IF ThresholdRejected(threshold)
    THEN [memories |-> mems, listed |-> {}, deleted |-> {}, code |-> 1]
    ELSE LET stored == IF dryRun THEN mems ELSE PersistDecayed(mems, t)
             toPrune == IF dryRun
                        THEN {id \in DOMAIN mems :
                                 calculateDecayedStrength(mems[id].last_accessed,
                                     mems[id].access_count, mems[id].strength, t)
                                 < threshold}
                        ELSE getMemoriesBelowStrength(stored, threshold)
             left == IF ~dryRun /\ toPrune # {}
                     THEN pruneMemoriesBelowStrength(stored, threshold)
                     ELSE stored
         IN [memories |-> left, listed |-> toPrune,
             deleted |-> DOMAIN mems \ DOMAIN left, code |-> 0]

Prune(dryRun, threshold) ==
    LET run == cmdPrune(memories, dryRun, threshold, now)
    IN /\ memories' = run.memories
       /\ fts' = FtsAfter(fts, memories, run.memories)
       /\ ret' = [NoRet EXCEPT !.op = "prune",
                               !.ok = (run.code = 0),
                               !.mode = IF dryRun THEN "dry-run" ELSE "delete",
                               !.input = [threshold |-> threshold, dry_run |-> dryRun],
                               !.gone = run.listed,
                               !.before = <<memories>>]
       /\ upsertChain' = [p \in Pairs |->
                            IF upsertChain[p] \in run.deleted THEN NULL ELSE upsertChain[p]]
       /\ UNCHANGED <<daemon, database, embeddings, decayRuns, ledger, metrics, features, now, nextId,
                      inflight, firstId, lastDone, lastWrite, overlapped, plain>>

-----------------------------------------------------------------------------
(* recall: src/tools/recall.ts, recall() with recallFTS5() and recallFallback() *)

RecallInputs ==
    {[query |-> q, limit |-> l, category |-> NULL, min_strength |-> NIL,
      scope_id |-> sc, chat_id |-> NULL, thread_id |-> NULL, task_id |-> NULL] :
        q \in Queries, l \in {NIL, <<1>>}, sc \in {NULL, "A"}}
    \cup
    {[query |-> "", limit |-> NIL, category |-> NULL, min_strength |-> <<1000>>,
      scope_id |-> NULL, chat_id |-> NULL, thread_id |-> NULL, task_id |-> NULL],
     [query |-> "alpha", limit |-> NIL, category |-> "fact", min_strength |-> NIL,
      scope_id |-> NULL, chat_id |-> "chat1", thread_id |-> NULL, task_id |-> NULL]}

\* input.limit ?? config.memory.defaultRecallLimit
RecallLimit(input) ==
    IF input.limit = NIL THEN DefaultRecallLimit ELSE input.limit[1]

\* input.min_strength ?? config.memory.minStrength
RecallMinStrength(input) ==
    IF input.min_strength = NIL THEN DefaultMinStrength ELSE input.min_strength[1]

\* Filters taken from the request whatever the scopes flag says.
RecallFiltersUngated(config, input) ==
    [scope_id |-> input.scope_id, chat_id |-> input.chat_id,
     thread_id |-> input.thread_id, task_id |-> input.task_id]

\* config.features.scopes ? { scope_id, chat_id, thread_id, task_id } : {}
RecallFilters(config, input) ==
    IF config.scopes
    THEN [scope_id |-> input.scope_id, chat_id |-> input.chat_id,
          thread_id |-> input.thread_id, task_id |-> input.task_id]
    ELSE NoFilters

\* The stored strength, with no decay applied.
StoredStrength(m, t) == m.strength

\* calculateDecayedStrength(m.last_accessed, m.access_count, m.strength)
Decayed(m, t) == calculateDecayedStrength(m.last_accessed, m.access_count, m.strength, t)

\* Math.exp(m.rank) for the ranks Bm25 gives, in thousandths.
ExpMilli(rank) ==
    CASE rank = 0 -> 1000
      [] rank = -500 -> 607
      [] rank = -1000 -> 368
      [] OTHER -> 0

\* A RecallMemory: the row as read, with the strength and relevance computed.
RecallMemory(m, strength, relevance) ==
    [id |-> m.id, content |-> m.content, category |-> m.category,
     strength |-> strength, relevance |-> relevance,
     created_at |-> m.created_at, access_count |-> m.access_count]

\* .filter(strength >= minStrength), .filter(category), .slice(0, limit)
FilterAndLimit(list, input, limit, minStrength) ==
    LET Keep(m) == /\ m.strength >= minStrength
                   /\ input.category # NULL => m.category = input.category
    IN Take(SelectSeq(list, Keep), limit)

\* An access update that also writes the decayed strength back on every row.
UpdateAccessPersistingDecay(mems, ids, t) ==
    [i \in DOMAIN mems |->
        IF i \in ids THEN updateMemoryAccess(mems, i, t)[i]
        ELSE [mems[i] EXCEPT !.strength = Decayed(mems[i], t)]]

\* for (const memory of returned) updateMemoryAccess(memory.id)
UpdateAccessOfReturned(mems, ids, t) ==
    [i \in DOMAIN mems |->
        IF i \in ids THEN updateMemoryAccess(mems, i, t)[i] ELSE mems[i]]

\* The ids of the memories that were stored and have been deleted: handed out
\* by crypto.randomUUID(), not in the table, and not awaiting their insert.
Forgotten ==
    {randomUUID(n) : n \in 1..nextId}
        \ (DOMAIN memories
            \cup {inflight[s].id : s \in {b \in Busy : inflight[b].kind = "remember"}})

\* What a recall step returns.  mode is the path taken: "recent" (empty
\* query), "fts" (no stored embedding), "fts_embed_failed" (the query's
\* embedding failed) or "semantic"; gone is the set of memories that had been
\* forgotten when the call was made.
RecallRet(input, config, phase, list, fallback, mode, gone) ==
    [NoRet EXCEPT !.op = "recall", !.phase = phase, !.input = input,
                  !.config = config, !.memories = list, !.fallback_mode = fallback,
                  !.mode = mode, !.gone = gone]

\* The ids a recall returned.
Returned(r) == {r.memories[k].id : k \in DOMAIN r.memories}

\* recallFTS5 / recallFallback: search, decay, filter, limit, access update,
\* metric, output.
RecallFromSearch(input, config, query, fallback, mode, gone) ==
    LET limit == RecallLimit(input)
        minStrength == RecallMinStrength(input)
        filters == RecallFilters(config, input)
    IN \E results \in searchMemories(memories, fts, query, limit * 2, filters) :
        LET decayedResults ==
                [k \in DOMAIN results |->
                    RecallMemory(memories[results[k].id],
                                 Decayed(memories[results[k].id], now),
                                 IF fallback
                                 THEN Decayed(memories[results[k].id], now)
                                 ELSE ExpMilli(results[k].rank))]
            filtered == FilterAndLimit(decayedResults, input, limit, minStrength)
        IN /\ memories' = UpdateAccessOfReturned(memories,
                              {filtered[k].id : k \in DOMAIN filtered}, now)
           /\ fts' = FtsAfter(fts, memories, memories')
           /\ metrics' = logMetric(metrics,
                                   RecallMetric(input, Len(filtered), fallback))
           /\ ret' = RecallRet(input, config, "done", filtered, fallback, mode, gone)

\* Empty query: the recent memories.
RecallFallbackWithin(input, maxMetrics) ==
    /\ IsBlank(input.query)
    /\ MetricsRoomWithin(maxMetrics)
    /\ RecallFromSearch(input, features, "", TRUE, "recent", Forgotten)
    /\ UNCHANGED <<daemon, database, embeddings, decayRuns, ledger, features, now, nextId, inflight,
                   firstId, lastDone, lastWrite, upsertChain, overlapped, plain>>

RecallFallback(input) == RecallFallbackWithin(input, MaxMetrics)

\* A query when no memory in the filters has an embedding: full-text search.
RecallNoEmbeddingsWithin(input, maxMetrics) ==
    /\ ~IsBlank(input.query)
    /\ MetricsRoomWithin(maxMetrics)
    /\ getAllMemoriesWithEmbeddings(memories, RecallFilters(features, input)) = {<<>>}
    /\ RecallFromSearch(input, features, input.query, FALSE, "fts", Forgotten)
    /\ UNCHANGED <<daemon, database, embeddings, decayRuns, ledger, features, now, nextId, inflight,
                   firstId, lastDone, lastWrite, upsertChain, overlapped, plain>>

RecallNoEmbeddings(input) == RecallNoEmbeddingsWithin(input, MaxMetrics)

\* A query with embeddings to compare: the rows are read, then embed(query) is awaited.
RecallBegin(input) ==
    LET config == features
        slot == CHOOSE s \in FreeSlots : \A o \in FreeSlots : s <= o
    IN /\ ~IsBlank(input.query)
       /\ MetricsRoom
       /\ FreeSlots # {}
       /\ \E memoriesWithEmbeddings \in
                getAllMemoriesWithEmbeddings(memories, RecallFilters(config, input)) :
            /\ Len(memoriesWithEmbeddings) > 0
            /\ inflight' = [inflight EXCEPT ![slot] =
                              [kind |-> "recall", input |-> input, config |-> config,
                               snapshot |-> memoriesWithEmbeddings,
                               gone |-> Forgotten]]
       /\ ret' = RecallRet(input, config, "await", <<>>, FALSE, "semantic", Forgotten)
       /\ UNCHANGED <<daemon, database, embeddings, decayRuns, memories, fts, ledger, metrics, features, now, nextId,
                      firstId, lastDone, lastWrite, upsertChain, overlapped, plain>>

\* Array.prototype.sort((a, b) => b.relevance - a.relevance): stable, descending.
SortByRelevance(list) ==
    LET n == Len(list)
        order == CHOOSE p \in Perms(1..n) :
                    \A i, j \in 1..n : i < j =>
                        \/ list[p[i]].relevance > list[p[j]].relevance
                        \/ /\ list[p[i]].relevance = list[p[j]].relevance
                           /\ p[i] < p[j]
    IN [k \in 1..n |-> list[order[k]]]

\* After the await, the query embedded: similarity over the rows read before it.
RecallFinishSemantic(slot) ==
    LET call == inflight[slot]
        input == call.input
        queryEmbedding == EmbedVector(input.query)
        allDecayed ==
            [k \in DOMAIN call.snapshot |->
                RecallMemory(call.snapshot[k], Decayed(call.snapshot[k], now),
                             cosineSimilarity(queryEmbedding, call.snapshot[k].embedding))]
        kept == FilterAndLimit(allDecayed, input, Len(allDecayed), RecallMinStrength(input))
        scoredMemories == Take(SortByRelevance(kept), RecallLimit(input))
    IN /\ call # Idle
       /\ call.kind = "recall"
       /\ memories' = UpdateAccessOfReturned(memories,
                          {scoredMemories[k].id : k \in DOMAIN scoredMemories}, now)
       /\ fts' = FtsAfter(fts, memories, memories')
       /\ metrics' = logMetric(metrics,
                               RecallMetric(input, Len(scoredMemories), FALSE))
       /\ inflight' = [inflight EXCEPT ![slot] = Idle]
       /\ ret' = RecallRet(input, call.config, "done", scoredMemories, FALSE,
                           "semantic", call.gone)
       /\ UNCHANGED <<daemon, database, embeddings, decayRuns, ledger, features, now, nextId,
                      firstId, lastDone, lastWrite, upsertChain, overlapped, plain>>

\* A recall that gives up when the query cannot be embedded.
RecallFinishEmbedError(slot) ==
    LET call == inflight[slot]
    IN /\ call # Idle
       /\ call.kind = "recall"
       /\ inflight' = [inflight EXCEPT ![slot] = Idle]
       /\ ret' = [RecallRet(call.input, call.config, "done", <<>>, FALSE,
                            "fts_embed_failed", call.gone)
                    EXCEPT !.ok = FALSE, !.error = "embedding failed"]
       /\ UNCHANGED <<daemon, database, embeddings, decayRuns, memories, fts, metrics, ledger, features, now, nextId,
                      firstId, lastDone, lastWrite, upsertChain, overlapped, plain>>

\* After the await, the embedding failed: full-text search, now.
RecallFinishFTS5(slot) ==
    LET call == inflight[slot]
    IN /\ call # Idle
       /\ call.kind = "recall"
       /\ RecallFromSearch(call.input, call.config, call.input.query, FALSE,
                           "fts_embed_failed", call.gone)
       /\ inflight' = [inflight EXCEPT ![slot] = Idle]
       /\ UNCHANGED <<daemon, database, embeddings, decayRuns, ledger, features, now, nextId,
                      firstId, lastDone, lastWrite, upsertChain, overlapped, plain>>

-----------------------------------------------------------------------------
(* Metrics summary: src/db/index.ts getMetricsSummary *)

\* session_id is any string a client sends: two sessions and the empty string
Sessions == {"", "s1", "s2"}

\* A caller reads the summary, of every session or of one.
MetricsSummary(session_id) ==
    /\ ret' = [NoRet EXCEPT !.op = "metrics_summary",
                            !.input = [session_id |-> session_id],
                            !.summary = getMetricsSummary(metrics, session_id)]
    /\ UNCHANGED <<daemon, database, embeddings, decayRuns, memories, fts, ledger, metrics, features, now, nextId,
                   inflight, firstId, lastDone, lastWrite, upsertChain, overlapped,
                   plain>>

\* Something outside the program damages the result_json of a ledger row.
CorruptLedgerRow(pk) ==
    /\ pk \in DOMAIN ledger
    /\ ~JsonParseThrows(ledger[pk].result_json)
    /\ ledger' = [ledger EXCEPT ![pk].result_json = CorruptJson]
    /\ ret' = NoRet
    /\ UNCHANGED <<daemon, database, embeddings, decayRuns, memories, fts, metrics, features,
                   now, nextId, inflight, firstId, lastDone, lastWrite, upsertChain,
                   overlapped, plain>>

-----------------------------------------------------------------------------
(* Database file: src/db/index.ts initDatabase, runMigrations, and schema.sql *)

\* CREATE TABLE IF NOT EXISTS memories of the first schema
FirstMemoryColumns ==
    {"id", "content", "category", "created_at", "updated_at", "last_accessed",
     "access_count", "strength"}

\* const memoryColumns of runMigrations, in its order
memoryColumns ==
    <<"embedding", "scope_id", "chat_id", "thread_id", "task_id", "metadata_json",
      "idempotency_key">>

CurrentMemoryColumns ==
    FirstMemoryColumns \cup {memoryColumns[i] : i \in DOMAIN memoryColumns}

\* CREATE TABLE IF NOT EXISTS idempotency_ledger of the current schema
CurrentLedgerColumns ==
    {"key", "operation", "scope_key", "scope_id", "created_at", "result_json"}

CompositePrimaryKey == <<"key", "operation", "scope_key">>

\* The idempotency_ledger of older databases: PRIMARY KEY(key), no scope_key
LegacyLedgerColumns ==
    {"key", "operation", "scope_id", "created_at", "result_json"}

LegacyPrimaryKey == <<"key">>

Table(columns, pk, rows) == [columns |-> columns, pk |-> pk, rows |-> rows]

\* A file that does not exist yet: no table.
NewDatabase ==
    [open |-> FALSE, opens |-> 0, memories |-> NIL, idempotency_ledger |-> NIL,
     memories_fts |-> NIL]

\* The table memories_fts with its entries; NIL stands for no such table.
FtsTable(entries) == <<entries>>

\* The entry the insert trigger writes into memories_fts for row r
FtsEntry(r) == [id |-> r.id, content |-> r.content]

\* db.exec(schema): every table of schema.sql is created unless it exists.
ExecSchema(d) ==
    [d EXCEPT
        !.memories = IF @ = NIL THEN Table(FirstMemoryColumns, <<"id">>, {}) ELSE @,
        !.idempotency_ledger =
            IF @ = NIL THEN Table(CurrentLedgerColumns, CompositePrimaryKey, {})
            ELSE @,
        \* CREATE VIRTUAL TABLE IF NOT EXISTS memories_fts: created empty; the
        \* triggers index the rows written from now on.
        !.memories_fts = IF @ = NIL THEN FtsTable({}) ELSE @]

\* hasColumn(database, table, column)
hasColumn(table, column) == column \in table.columns

\* ALTER TABLE memories ADD COLUMN: every row reads NULL in the new column.
AddColumn(table, column) ==
    [table EXCEPT !.columns = @ \cup {column},
                  !.rows = {(column :> NULL) @@ r : r \in @}]

\* for (const column of memoryColumns) if (!hasColumn(...)) ALTER TABLE ...
RECURSIVE AddMissingColumns(_, _)
AddMissingColumns(table, i) ==
    IF i > Len(memoryColumns) THEN table
    ELSE AddMissingColumns(IF hasColumn(table, memoryColumns[i]) THEN table
                           ELSE AddColumn(table, memoryColumns[i]),
                           i + 1)

\* hasCompositeIdempotencyPrimaryKey(database)
hasCompositeIdempotencyPrimaryKey(table) == table.pk = CompositePrimaryKey

\* The value of the primary key of a row
PrimaryKeyOf(pk, r) == [i \in DOMAIN pk |-> r[pk[i]]]

\* COALESCE(scope_id, '__global__')
CoalesceScope(scope_id) == IF scope_id = NULL THEN GlobalScopeKey ELSE scope_id

\* A rebuild that creates the new table and copies nothing into it.
migrateIdempotencyLedgerWithoutCopy(d) ==
    IF d.idempotency_ledger = NIL
          \/ hasCompositeIdempotencyPrimaryKey(d.idempotency_ledger)
    THEN d
    ELSE [d EXCEPT !.idempotency_ledger =
                        Table(CurrentLedgerColumns, CompositePrimaryKey, {})]

\* migrateIdempotencyLedger: nothing when the table is absent or has the
\* composite key; else, in one transaction, the rows are copied into a new
\* table that takes the place of the old one.  An insert that breaks the new
\* primary key aborts the statement and the table stays as it was.
migrateIdempotencyLedger(d) ==
    IF d.idempotency_ledger = NIL
          \/ hasCompositeIdempotencyPrimaryKey(d.idempotency_ledger)
    THEN d
    ELSE LET copied == {[key |-> r.key,
                         operation |-> r.operation,
                         scope_key |-> CoalesceScope(r.scope_id),
                         scope_id |-> r.scope_id,
                         created_at |-> r.created_at,
                         result_json |-> r.result_json] :
                            r \in d.idempotency_ledger.rows}
             unique == \A r1, r2 \in copied :
                          PrimaryKeyOf(CompositePrimaryKey, r1)
                              = PrimaryKeyOf(CompositePrimaryKey, r2) => r1 = r2
         IN IF unique /\ Cardinality(copied) = Cardinality(d.idempotency_ledger.rows)
            THEN [d EXCEPT !.idempotency_ledger =
                               Table(CurrentLedgerColumns, CompositePrimaryKey, copied)]
            ELSE d

\* runMigrations(database)
runMigrations(d) ==
    migrateIdempotencyLedger(
        [d EXCEPT !.memories = AddMissingColumns(@, 1),
                  !.idempotency_ledger =
                      IF @ = NIL
                      THEN Table(CurrentLedgerColumns, CompositePrimaryKey, {})
                      ELSE @])

\* initDatabase(dbPath) on a closed file: the schema, then the migrations.
initDatabase(d) ==
    [runMigrations(ExecSchema(d)) EXCEPT !.open = TRUE, !.opens = @ + 1]

\* The process opens the database file.
InitDatabase ==
    /\ ~database.open
    /\ database.opens < MaxOpens
    /\ database' = initDatabase(database)
    /\ UNCHANGED <<daemon, embeddings, decayRuns, memories, fts, ledger, metrics, features,
                   now, nextId, inflight, ret, firstId, lastDone, lastWrite,
                   upsertChain, overlapped, plain>>

\* closeDatabase()
CloseDatabase ==
    /\ database.open
    /\ database' = [database EXCEPT !.open = FALSE]
    /\ UNCHANGED <<daemon, embeddings, decayRuns, memories, fts, ledger, metrics, features,
                   now, nextId, inflight, ret, firstId, lastDone, lastWrite,
                   upsertChain, overlapped, plain>>

-----------------------------------------------------------------------------
(* Embedder: src/embeddings.ts getEmbedder, resetEmbedder *)

\* A load is one call of pipeline(); its promise is pending until the model
\* is loaded ("ok") or the load fails ("err").  The pipeline of load n is
\* written n; 0 is null.
Loads == 1..MaxLoads
Callers == 1..MaxCallers

\* A caller outside getEmbedder()
IdleCaller == [pc |-> "idle", promise |-> 0, ok |-> FALSE, value |-> 0]

\* let embedder = null; let isInitializing = false; let initPromise = null
InitEmbeddings ==
    [embedder |-> 0, isInitializing |-> FALSE, initPromise |-> 0,
     loads |-> [n \in Loads |-> "none"],
     callers |-> [c \in Callers |-> IdleCaller]]

\* Loads asked for so far
LoadsStarted(e) == Cardinality({n \in Loads : e.loads[n] # "none"})

\* A getEmbedder() that starts a load whenever no pipeline is cached.
getEmbedderWithoutGuard(e, c) ==
    IF e.embedder # 0
    THEN [e EXCEPT !.callers[c] = [pc |-> "done", promise |-> 0,
                                   ok |-> TRUE, value |-> e.embedder]]
    ELSE LET n == LoadsStarted(e) + 1
         IN [e EXCEPT !.isInitializing = TRUE,
                      !.initPromise = n,
                      !.loads[n] = "pending",
                      !.callers[c] = [pc |-> "awaitInit", promise |-> n,
                                      ok |-> FALSE, value |-> 0]]

\* getEmbedder(), from the call to its first await or return: the cached
\* pipeline, or the initPromise in progress, or a new load.
getEmbedder(e, c) ==
    IF e.embedder # 0
    THEN [e EXCEPT !.callers[c] = [pc |-> "done", promise |-> 0,
                                   ok |-> TRUE, value |-> e.embedder]]
    ELSE IF e.isInitializing /\ e.initPromise # 0
    THEN [e EXCEPT !.callers[c] = [pc |-> "shared", promise |-> e.initPromise,
                                   ok |-> FALSE, value |-> 0]]
    ELSE LET n == LoadsStarted(e) + 1
         IN [e EXCEPT !.isInitializing = TRUE,
                      !.initPromise = n,
                      !.loads[n] = "pending",
                      !.callers[c] = [pc |-> "awaitInit", promise |-> n,
                                      ok |-> FALSE, value |-> 0]]

\* Caller c calls getEmbedder(), directly or through embed().
GetEmbedder(c) ==
    /\ embeddings.callers[c].pc \in {"idle", "done"}
    /\ embeddings.embedder = 0 => LoadsStarted(embeddings) < MaxLoads
    /\ embeddings' = getEmbedder(embeddings, c)
    /\ UNCHANGED <<daemon, database, decayRuns, memories, fts, ledger, metrics, features,
                   now, nextId, inflight, ret, firstId, lastDone, lastWrite, upsertChain,
                   overlapped, plain>>

\* pipeline() of load n settles: the model is loaded, or the load failed.
LoadSettles(n, loaded) ==
    /\ embeddings.loads[n] = "pending"
    /\ embeddings' = [embeddings EXCEPT !.loads[n] = IF loaded THEN "ok" ELSE "err"]
    /\ UNCHANGED <<daemon, database, decayRuns, memories, fts, ledger, metrics, features,
                   now, nextId, inflight, ret, firstId, lastDone, lastWrite, upsertChain,
                   overlapped, plain>>

\* The caller that started the load resumes after `await initPromise`: it
\* caches the pipeline of a successful load, and its finally block clears
\* isInitializing and initPromise.
GetEmbedderResume(c) ==
    LET call == embeddings.callers[c]
        loaded == embeddings.loads[call.promise] = "ok"
    IN /\ call.pc = "awaitInit"
       /\ embeddings.loads[call.promise] \in {"ok", "err"}
       /\ embeddings' =
              [embeddings EXCEPT
                  !.embedder = IF loaded THEN call.promise ELSE @,
                  !.isInitializing = FALSE,
                  !.initPromise = 0,
                  !.callers[c] = [pc |-> "done", promise |-> call.promise,
                                  ok |-> loaded,
                                  value |-> IF loaded THEN call.promise ELSE 0]]
       /\ UNCHANGED <<daemon, database, decayRuns, memories, fts, ledger, metrics, features,
                      now, nextId, inflight, ret, firstId, lastDone, lastWrite,
                      upsertChain, overlapped, plain>>

\* A caller that was handed the initPromise in progress receives its result.
GetEmbedderShared(c) ==
    LET call == embeddings.callers[c]
        loaded == embeddings.loads[call.promise] = "ok"
    IN /\ call.pc = "shared"
       /\ embeddings.loads[call.promise] \in {"ok", "err"}
       /\ embeddings' =
              [embeddings EXCEPT
                  !.callers[c] = [pc |-> "done", promise |-> call.promise,
                                  ok |-> loaded,
                                  value |-> IF loaded THEN call.promise ELSE 0]]
       /\ UNCHANGED <<daemon, database, decayRuns, memories, fts, ledger, metrics, features,
                      now, nextId, inflight, ret, firstId, lastDone, lastWrite,
                      upsertChain, overlapped, plain>>

\* resetEmbedder(), "for testing": the three module variables are cleared,
\* whatever load or caller is in progress.
resetEmbedder ==
    /\ embeddings' = [embeddings EXCEPT !.embedder = 0,
                                        !.isInitializing = FALSE,
                                        !.initPromise = 0]
    /\ UNCHANGED <<daemon, database, decayRuns, memories, fts, ledger, metrics, features,
                   now, nextId, inflight, ret, firstId, lastDone, lastWrite, upsertChain,
                   overlapped, plain>>

-----------------------------------------------------------------------------
(* Configuration: src/config.ts loadConfig, FILE_DEFAULTS *)

FlagNames == {"scopes", "idempotency", "contextHydration", "workItems"}

\* FILE_DEFAULTS.scopes, .idempotency, .contextHydration, .workItems, and the
\* `?? true` of loadConfig
FlagDefault(flag) == TRUE

\* config.features of loadConfig(): for each flag, the ENGRAM_ENABLE_*
\* variable when it is set (anything but "0" enables), else the entry of the
\* config file, else the default.  env[flag] is NULL when the variable is
\* unset, file[flag] is NIL when the file has no entry.
loadConfig(env, file) ==
    [flag \in FlagNames |->
        IF env[flag] # NULL THEN env[flag] # "0"
        ELSE IF file[flag] # NIL THEN file[flag][1]
        ELSE FlagDefault(flag)]

\* The process starts: getConfig() resolves the flags from its environment
\* and config file.
LoadConfig ==
    /\ ret.op = "loadConfig"
    /\ ret.phase = "await"
    /\ ret' = [ret EXCEPT !.phase = "done",
                          !.config = loadConfig(ret.input.env, ret.input.file)]
    /\ features' = loadConfig(ret.input.env, ret.input.file)
    /\ UNCHANGED <<daemon, database, embeddings, decayRuns, memories, fts, ledger, metrics,
                   now, nextId, inflight, firstId, lastDone, lastWrite, upsertChain,
                   overlapped, plain>>

-----------------------------------------------------------------------------
(* Capabilities: src/capabilities.ts getCapabilities, src/index.ts ListTools *)

\* config.features.contextHydration and config.features.workItems as
\* loadConfig() resolves them: the environment value when it is set, else the
\* file value, else true.
ContextHydrationOf(config) ==
    IF "contextHydration" \in DOMAIN config THEN config.contextHydration ELSE TRUE

WorkItemsOf(config) ==
    IF "workItems" \in DOMAIN config THEN config.workItems ELSE TRUE

\* The configuration the process found when it started.
StartupConfig == [scopes |-> TRUE, idempotency |-> TRUE]

\* A tool list computed once, from the configuration at startup.
getCapabilitiesAtStartup(config) ==
    [features |-> [scopes |-> StartupConfig.scopes,
                   idempotency |-> StartupConfig.idempotency,
                   context_hydration |-> ContextHydrationOf(StartupConfig),
                   work_items |-> WorkItemsOf(StartupConfig)],
     tools |-> <<"remember", "recall", "forget", "capabilities">>
                 \o (IF ContextHydrationOf(StartupConfig)
                     THEN <<"context_hydrate">> ELSE <<>>)]

\* getCapabilities(version), config being what getConfig() returns in the call
getCapabilities(config) ==
    [features |-> [scopes |-> config.scopes,
                   idempotency |-> config.idempotency,
                   context_hydration |-> ContextHydrationOf(config),
                   work_items |-> WorkItemsOf(config)],
     tools |-> <<"remember", "recall", "forget", "capabilities">>
                 \o (IF ContextHydrationOf(config)
                     THEN <<"context_hydrate">> ELSE <<>>)]

\* The names of the tools the ListTools handler answers with, config being
\* what getConfig() returns in the handler.
ListToolNames(config) ==
    <<"remember", "recall", "forget", "capabilities">>
        \o (IF ContextHydrationOf(config) THEN <<"context_hydrate">> ELSE <<>>)

\* The capabilities tool, or GET /capabilities.
Capabilities ==
    /\ ret' = [NoRet EXCEPT !.op = "capabilities",
                            !.config = features,
                            !.summary = getCapabilities(features).features,
                            !.tools = getCapabilities(features).tools]
    /\ UNCHANGED <<daemon, database, embeddings, decayRuns, memories, fts, ledger, metrics, features, now, nextId,
                   inflight, firstId, lastDone, lastWrite, upsertChain, overlapped,
                   plain>>

\* The MCP list_tools request.
ListTools ==
    /\ ret' = [NoRet EXCEPT !.op = "list_tools",
                            !.config = features,
                            !.tools = ListToolNames(features)]
    /\ UNCHANGED <<daemon, database, embeddings, decayRuns, memories, fts, ledger, metrics, features, now, nextId,
                   inflight, firstId, lastDone, lastWrite, upsertChain, overlapped,
                   plain>>

-----------------------------------------------------------------------------
(* Daemon: src/daemon.ts getDaemonStatus, startDaemon, stopDaemon, restartDaemon *)

Commands == 1..MaxCommands
IdleCommand == [kind |-> "none", pc |-> "idle", pid |-> 0]

\* No PID file, no server process, the port free, no command running.
NoDaemon ==
    [pidFile |-> NIL, procs |-> <<>>, term |-> {}, port |-> 0,
     cmds |-> [c \in Commands |-> IdleCommand], runs |-> 0, overlapped |-> FALSE]

\* process.kill(pid, 0): the process exists
isProcessRunning(d, pid) == pid \in DOMAIN d.procs /\ d.procs[pid] # "dead"

\* The server processes that exist.
Alive(d) == {p \in DOMAIN d.procs : d.procs[p] # "dead"}

\* if (existsSync(pidPath)) unlinkSync(pidPath)
removePidFile(d) == [d EXCEPT !.pidFile = NIL]

\* getDaemonStatus(): no PID file, not running; a PID file naming a dead
\* process is removed, not running; otherwise running with that pid.
getDaemonStatus(d) ==
    IF d.pidFile = NIL
    THEN [running |-> FALSE, pid |-> 0, daemon |-> d]
    ELSE IF ~isProcessRunning(d, d.pidFile[1])
    THEN [running |-> FALSE, pid |-> 0, daemon |-> removePidFile(d)]
    ELSE [running |-> TRUE, pid |-> d.pidFile[1], daemon |-> d]

\* The process pid is gone: it holds the port no longer.
Exited(d, pid) ==
    [d EXCEPT !.procs[pid] = "dead", !.port = IF @ = pid THEN 0 ELSE @]

\* What a step of a command that has not returned leaves in ret.
DaemonStep(c, kind) ==
    [NoRet EXCEPT !.op = "daemon", !.phase = "await",
                  !.input = [command |-> c, kind |-> kind]]

\* What a command that returns result leaves in ret; signal is the last
\* signal it sent, if any.
DaemonReturn(c, kind, result, signal) ==
    [NoRet EXCEPT !.op = "daemon", !.phase = "done", !.ok = result,
                  !.input = [command |-> c, kind |-> kind], !.mode = signal]

\* A user runs `engram start`, `engram stop` or `engram restart`.
CommandBegin(c, kind) ==
    /\ daemon.cmds[c].pc = "idle"
    /\ daemon.runs < MaxRuns
    /\ daemon' = [daemon EXCEPT
                    !.cmds[c] = [kind |-> kind,
                                 pc |-> IF kind = "start" THEN "start" ELSE "stop",
                                 pid |-> 0],
                    !.runs = @ + 1,
                    !.overlapped = @ \/ \E o \in Commands \ {c} : daemon.cmds[o].pc # "idle"]
    /\ ret' = DaemonStep(c, kind)
    /\ UNCHANGED <<database, embeddings, decayRuns, memories, fts, ledger, metrics,
                   features, now, nextId, inflight, firstId, lastDone, lastWrite,
                   upsertChain, overlapped, plain>>

\* startDaemon: status = await getDaemonStatus(); already running, return false.
StartCheck(c) ==
    LET cmd == daemon.cmds[c]
        status == getDaemonStatus(daemon)
    IN /\ cmd.pc = "start"
       /\ IF status.running
          THEN /\ daemon' = [status.daemon EXCEPT !.cmds[c] = IdleCommand]
               /\ ret' = DaemonReturn(c, cmd.kind, FALSE, "none")
          ELSE /\ daemon' = [status.daemon EXCEPT !.cmds[c].pc = "spawn"]
               /\ ret' = DaemonStep(c, cmd.kind)
       /\ UNCHANGED <<database, embeddings, decayRuns, memories, fts, ledger, metrics,
                   features, now, nextId, inflight, firstId, lastDone, lastWrite,
                   upsertChain, overlapped, plain>>

\* startDaemon: Bun.spawn(["bun", "run", cliPath, "serve"]); writePid(proc.pid)
StartSpawn(c) ==
    LET cmd == daemon.cmds[c]
        pid == Len(daemon.procs) + 1
    IN /\ cmd.pc = "spawn"
       /\ Len(daemon.procs) < MaxPids
       /\ daemon' = [daemon EXCEPT !.procs = Append(@, "starting"),
                                   !.pidFile = <<pid>>,
                                   !.cmds[c].pc = "verify",
                                   !.cmds[c].pid = pid]
       /\ ret' = DaemonStep(c, cmd.kind)
       /\ UNCHANGED <<database, embeddings, decayRuns, memories, fts, ledger, metrics,
                   features, now, nextId, inflight, firstId, lastDone, lastWrite,
                   upsertChain, overlapped, plain>>

\* startDaemon, 500 ms later: newStatus = await getDaemonStatus(); running,
\* return true; otherwise removePidFile(), return false.
StartVerify(c) ==
    LET cmd == daemon.cmds[c]
        newStatus == getDaemonStatus(daemon)
    IN /\ cmd.pc = "verify"
       /\ daemon' = [(IF newStatus.running THEN newStatus.daemon
                      ELSE removePidFile(newStatus.daemon))
                        EXCEPT !.cmds[c] = IdleCommand]
       /\ ret' = DaemonReturn(c, cmd.kind, newStatus.running, "none")
       /\ UNCHANGED <<database, embeddings, decayRuns, memories, fts, ledger, metrics,
                   features, now, nextId, inflight, firstId, lastDone, lastWrite,
                   upsertChain, overlapped, plain>>

\* stopDaemon: status = await getDaemonStatus(); not running, return false;
\* otherwise process.kill(status.pid, "SIGTERM") and the wait begins.
\* restartDaemon goes on to startDaemon whatever stopDaemon returned.
StopCheck(c) ==
    LET cmd == daemon.cmds[c]
        status == getDaemonStatus(daemon)
    IN /\ cmd.pc = "stop"
       /\ IF status.running
          THEN /\ daemon' = [status.daemon EXCEPT !.term = @ \cup {status.pid},
                                                  !.cmds[c].pc = "stopping",
                                                  !.cmds[c].pid = status.pid]
               /\ ret' = DaemonStep(c, cmd.kind)
          ELSE IF cmd.kind = "restart"
          THEN /\ daemon' = [status.daemon EXCEPT !.cmds[c].pc = "start"]
               /\ ret' = DaemonStep(c, cmd.kind)
          ELSE /\ daemon' = [status.daemon EXCEPT !.cmds[c] = IdleCommand]
               /\ ret' = DaemonReturn(c, cmd.kind, FALSE, "none")
       /\ UNCHANGED <<database, embeddings, decayRuns, memories, fts, ledger, metrics,
                   features, now, nextId, inflight, firstId, lastDone, lastWrite,
                   upsertChain, overlapped, plain>>

\* stopDaemon, when the process has exited or the 5 seconds are over: SIGKILL
\* if it is still running, removePidFile(), return true.
StopFinish(c) ==
    LET cmd == daemon.cmds[c]
        stillRunning == isProcessRunning(daemon, cmd.pid)
        killed == IF stillRunning THEN Exited(daemon, cmd.pid) ELSE daemon
        signal == IF stillRunning THEN "SIGKILL" ELSE "SIGTERM"
    IN /\ cmd.pc = "stopping"
       /\ IF cmd.kind = "restart"
          THEN /\ daemon' = [removePidFile(killed) EXCEPT !.cmds[c].pc = "start",
                                                          !.cmds[c].pid = 0]
               /\ ret' = [DaemonStep(c, cmd.kind) EXCEPT !.mode = signal]
          ELSE /\ daemon' = [removePidFile(killed) EXCEPT !.cmds[c] = IdleCommand]
               /\ ret' = DaemonReturn(c, cmd.kind, TRUE, signal)
       /\ UNCHANGED <<database, embeddings, decayRuns, memories, fts, ledger, metrics,
                   features, now, nextId, inflight, firstId, lastDone, lastWrite,
                   upsertChain, overlapped, plain>>

\* The spawned `engram serve` reaches Bun.serve({port}): it listens, or the
\* port is taken and it exits.
DaemonBind(pid) ==
    /\ pid \in DOMAIN daemon.procs
    /\ daemon.procs[pid] = "starting"
    /\ daemon' = IF daemon.port = 0
                 THEN [daemon EXCEPT !.procs[pid] = "serving", !.port = pid]
                 ELSE Exited(daemon, pid)
    /\ ret' = [NoRet EXCEPT !.op = "daemon", !.phase = "await"]
    /\ UNCHANGED <<database, embeddings, decayRuns, memories, fts, ledger, metrics,
                   features, now, nextId, inflight, firstId, lastDone, lastWrite,
                   upsertChain, overlapped, plain>>

\* A server that received SIGTERM shuts down: onShutdown(() => server.stop()).
DaemonExit(pid) ==
    /\ pid \in daemon.term
    /\ isProcessRunning(daemon, pid)
    /\ daemon' = Exited(daemon, pid)
    /\ ret' = [NoRet EXCEPT !.op = "daemon", !.phase = "await"]
    /\ UNCHANGED <<database, embeddings, decayRuns, memories, fts, ledger, metrics,
                   features, now, nextId, inflight, firstId, lastDone, lastWrite,
                   upsertChain, overlapped, plain>>

-----------------------------------------------------------------------------
(* Environment *)

TickWithin(maxTime) ==
    /\ now < maxTime
    /\ now' = now + 1
    /\ ret' = NoRet
    /\ UNCHANGED <<daemon, database, embeddings, decayRuns, memories, fts, ledger, metrics, features, nextId, inflight,
                   firstId, lastDone, lastWrite, upsertChain, overlapped, plain>>

Tick == TickWithin(MaxTime)

\* ENGRAM_ENABLE_SCOPES / ENGRAM_ENABLE_IDEMPOTENCY change: getConfig() reads
\* them at each request.  The change falls between requests.
SetFeatures(f) ==
    /\ f # features
    /\ Busy = {}
    /\ features' = f
    /\ ret' = NoRet
    /\ UNCHANGED <<daemon, database, embeddings, decayRuns, memories, fts, ledger, metrics, now, nextId, inflight,
                   firstId, lastDone, lastWrite, upsertChain, overlapped, plain>>

FeatureSets == [scopes : BOOLEAN, idempotency : BOOLEAN]

\* The empty store, before any request.
InitStore ==
    /\ memories = EmptyTable
    /\ fts = EmptyTable
    /\ ledger = EmptyTable
    /\ metrics = EmptyBag
    /\ features = [scopes |-> TRUE, idempotency |-> TRUE]
    /\ now = 0
    /\ decayRuns = 0
    /\ nextId = 0
    /\ inflight = [s \in Slots |-> Idle]
    /\ firstId = [p \in Pairs |-> NULL]
    /\ lastDone = [p \in Pairs |-> NoResult]
    /\ lastWrite = [p \in Pairs |-> NoResult]
    /\ upsertChain = [p \in Pairs |-> NULL]
    /\ overlapped = {}
    /\ plain = {}
    /\ embeddings = InitEmbeddings
    /\ daemon = NoDaemon

Init ==
    /\ InitStore
    /\ database = initDatabase(NewDatabase)
    /\ ret = NoRet

-----------------------------------------------------------------------------
(* Specifications.  Each one runs the same actions over the inputs of one  *)
(* family of requests, so that the reachable states stay enumerable.       *)

\* Keyed requests: a plain remember with full details, an upsert with content
\* alone, with and without a scope, and the upsert that lacks its key.
IdempotencyInputs ==
    {i \in RememberInputs :
        /\ i.scope_id # "B"
        /\ i.upsert <=> i.content = "alpha beta"
        /\ i.idempotency_key = NULL => i.upsert}

Next ==
    \/ \E input \in IdempotencyInputs : RememberReject(input)
    \/ \E input \in IdempotencyInputs : RememberReplay(input)
    \/ \E input \in IdempotencyInputs : RememberBeginUpdate(input)
    \/ \E input \in IdempotencyInputs : RememberBeginCreate(input)
    \/ \E slot \in Slots, embedOk \in BOOLEAN : RememberFinishUpdate(slot, embedOk)
    \/ \E slot \in Slots, embedOk \in BOOLEAN : RememberFinishCreate(slot, embedOk)
    \/ \E input \in ForgetInputs : Forget(input)
    \/ \E f \in FeatureSets : SetFeatures(f)

Spec == Init /\ [][Next]_vars

\* Upserts of one key in one scope, with either details, as time passes and
\* the memory is recalled and decayed.
UpsertInputs ==
    {i \in RememberInputs :
        i.scope_id = "B" /\ i.upsert /\ i.idempotency_key # NULL}

RecentInputs == {i \in RecallInputs : i.query = "" /\ i.limit = NIL /\ i.scope_id = NULL}

NextUpsert ==
    \/ \E input \in UpsertInputs : RememberBeginUpdate(input)
    \/ \E input \in UpsertInputs : RememberBeginCreate(input)
    \/ \E slot \in Slots, embedOk \in BOOLEAN : RememberFinishUpdate(slot, embedOk)
    \/ \E slot \in Slots, embedOk \in BOOLEAN : RememberFinishCreate(slot, embedOk)
    \/ \E input \in RecentInputs : RecallFallback(input)
    \/ DecayApply
    \/ Tick

SpecUpsert == Init /\ [][NextUpsert]_vars

\* Plain memories in every scope, recalled in every mode as time passes.
PlainInputs ==
    {i \in RememberInputs : ~i.upsert /\ i.idempotency_key = NULL}

ScopeFeatureSets == {f \in FeatureSets : f.idempotency}

NextRecall ==
    \/ \E input \in PlainInputs : RememberBeginCreate(input)
    \/ \E slot \in Slots, embedOk \in BOOLEAN : RememberFinishCreate(slot, embedOk)
    \/ \E input \in RecallInputs : RecallFallback(input)
    \/ \E input \in RecallInputs : RecallNoEmbeddings(input)
    \/ \E input \in RecallInputs : RecallBegin(input)
    \/ \E slot \in Slots : RecallFinishSemantic(slot)
    \/ \E slot \in Slots : RecallFinishFTS5(slot)
    \/ DecayApply
    \/ Tick
    \/ \E f \in ScopeFeatureSets : SetFeatures(f)

SpecRecall == Init /\ [][NextRecall]_vars

\* Long runs: plain memories outside every scope, recalled with an empty
\* query and decayed, over more days and more logged events.
LongRememberInputs ==
    {i \in PlainInputs : i.scope_id = NULL}

LongRecallInputs ==
    {i \in RecallInputs : i.query = "" /\ i.scope_id = NULL}

NextLong ==
    \/ \E input \in LongRememberInputs : RememberBeginCreateWithin(input, MaxLongMetrics)
    \/ \E slot \in Slots, embedOk \in BOOLEAN : RememberFinishCreate(slot, embedOk)
    \/ \E input \in LongRecallInputs : RecallFallbackWithin(input, MaxLongMetrics)
    \/ DecayApply
    \/ TickWithin(MaxLongTime)

SpecLong == Init /\ [][NextLong]_vars

\* The decay command run again: plain memories, recalled with an empty query,
\* over some days, with decay --apply run up to MaxDecayApplies times.
NextReapply ==
    \/ \E input \in LongRememberInputs : RememberBeginCreateWithin(input, MaxLongMetrics)
    \/ \E slot \in Slots, embedOk \in BOOLEAN : RememberFinishCreate(slot, embedOk)
    \/ \E input \in LongRecallInputs : RecallFallbackWithin(input, MaxLongMetrics)
    \/ DecayApplyWithin(MaxDecayApplies)
    \/ TickWithin(MaxLongTime)

SpecReapply == Init /\ [][NextReapply]_vars

\* prune: a store of plain memories created on day 0 whose stored strengths
\* earlier runs of decay --apply have lowered, pruned with and without
\* --dry-run as the days pass.
PruneStrengths == {1000, 100, 10}
PruneThresholds == {10, 100, 2000}

PruneInput == CHOOSE i \in LongRememberInputs : i.content = "alpha"

WeakenedStores ==
    {[id \in Ids |->
        updateMemoryStrength(
            RememberCreate(EmptyTable, id, [scopes |-> TRUE, idempotency |-> TRUE],
                           PruneInput, EmbeddingBuffer(PruneInput, TRUE), 0),
            id, ss[id])[id]] : ss \in [Ids -> PruneStrengths]}

InitPrune ==
    /\ memories \in WeakenedStores
    /\ fts = FtsAfter(EmptyTable, EmptyTable, memories)
    /\ ledger = EmptyTable
    /\ metrics = [m \in {Metric("remember", id, NIL, FALSE) : id \in Ids} |-> 1]
    /\ features = [scopes |-> TRUE, idempotency |-> TRUE]
    /\ now = 0
    /\ decayRuns = 0
    /\ nextId = MaxId
    /\ inflight = [s \in Slots |-> Idle]
    /\ firstId = [p \in Pairs |-> NULL]
    /\ lastDone = [p \in Pairs |-> NoResult]
    /\ lastWrite = [p \in Pairs |-> NoResult]
    /\ upsertChain = [p \in Pairs |-> NULL]
    /\ overlapped = {}
    /\ plain = {}
    /\ embeddings = InitEmbeddings
    /\ daemon = NoDaemon
    /\ database = initDatabase(NewDatabase)
    /\ ret = NoRet

NextPrune ==
    \/ \E dryRun \in BOOLEAN, threshold \in PruneThresholds : Prune(dryRun, threshold)
    \/ TickWithin(MaxTime)

SpecPrune == InitPrune /\ [][NextPrune]_vars

\* The limit of recall: up to MaxLimitId plain memories, stored with or
\* without an embedding, and one recall with limit 1 by an empty query or by
\* full text, with a category or a minimum strength.
LimitRecallInputs ==
    {[query |-> q, limit |-> <<1>>, category |-> c, min_strength |-> s,
      scope_id |-> NULL, chat_id |-> NULL, thread_id |-> NULL, task_id |-> NULL] :
        q \in {"", "alpha"}, c \in {NULL, "fact"}, s \in {NIL, <<1000>>}}

NextLimit ==
    \/ \E input \in LongRememberInputs :
          RememberBeginCreateUpTo(input, MaxLimitMetrics, MaxLimitId)
    \/ \E slot \in Slots, embedOk \in BOOLEAN : RememberFinishCreate(slot, embedOk)
    \/ \E input \in LimitRecallInputs : RecallFallbackWithin(input, MaxLimitMetrics)
    \/ \E input \in LimitRecallInputs : RecallNoEmbeddingsWithin(input, MaxLimitMetrics)
    \/ TickWithin(MaxTime)

SpecLimit == Init /\ [][NextLimit]_vars

\* The daemon: start, stop and restart commands run by up to MaxCommands
\* shells at once, and the server processes they spawn.
CommandKinds == {"start", "stop", "restart"}

NextDaemon ==
    \/ \E c \in Commands, kind \in CommandKinds : CommandBegin(c, kind)
    \/ \E c \in Commands : StartCheck(c)
    \/ \E c \in Commands : StartSpawn(c)
    \/ \E c \in Commands : StartVerify(c)
    \/ \E c \in Commands : StopCheck(c)
    \/ \E c \in Commands : StopFinish(c)
    \/ \E pid \in 1..MaxPids : DaemonBind(pid)
    \/ \E pid \in 1..MaxPids : DaemonExit(pid)

SpecDaemon == Init /\ [][NextDaemon]_vars

\* The decay function alone: a memory last accessed days1 and days2 days ago,
\* days1 <= days2 (0 days: within the 0.001-day just-accessed rule), with one
\* access count and one stored strength.
StrengthValues == {1000, 950, 500, 100}

DecayArgs ==
    {a \in [days1 : 0..MaxDays, days2 : 0..MaxDays,
             access_count : 1..MaxCount, strength : StrengthValues] :
        a.days1 <= a.days2}

InitDecay ==
    /\ InitStore
    /\ database = initDatabase(NewDatabase)
    /\ ret \in {[NoRet EXCEPT !.op = "strength", !.phase = "await", !.input = a] :
                   a \in DecayArgs}

\* calculateDecayedStrength at both times: ret.memories holds the two values.
EffectiveStrength ==
    /\ ret.op = "strength"
    /\ ret.phase = "await"
    /\ ret' = [ret EXCEPT
                 !.phase = "done",
                 !.memories =
                     <<calculateDecayedStrength(0, ret.input.access_count,
                                                ret.input.strength, ret.input.days1),
                       calculateDecayedStrength(0, ret.input.access_count,
                                                ret.input.strength, ret.input.days2)>>]
    /\ UNCHANGED <<daemon, database, embeddings, decayRuns, memories, fts, ledger, metrics, features, now, nextId,
                   inflight, firstId, lastDone, lastWrite, upsertChain, overlapped,
                   plain>>

NextDecay == EffectiveStrength

SpecDecay == InitDecay /\ [][NextDecay]_vars

\* Recalls of two sessions and of none, in every mode, and the summary read
\* between them.
SessionRecallInputs ==
    {[session_id |-> sid] @@ i :
        sid \in Opt(Sessions),
        i \in {r \in RecallInputs :
                  /\ r.query \in {"", "alpha"}
                  /\ r.limit = NIL /\ r.min_strength = NIL
                  /\ r.scope_id = NULL /\ r.category = NULL}}

MetricsRememberInputs ==
    {i \in LongRememberInputs : i.content = "alpha beta"}

NextMetrics ==
    \/ \E input \in MetricsRememberInputs : RememberBeginCreate(input)
    \/ \E slot \in Slots, embedOk \in BOOLEAN : RememberFinishCreate(slot, embedOk)
    \/ \E input \in SessionRecallInputs : RecallFallback(input)
    \/ \E input \in SessionRecallInputs : RecallNoEmbeddings(input)
    \/ \E input \in SessionRecallInputs : RecallBegin(input)
    \/ \E slot \in Slots : RecallFinishSemantic(slot)
    \/ \E slot \in Slots : RecallFinishFTS5(slot)
    \/ \E session_id \in Opt(Sessions) : MetricsSummary(session_id)

SpecMetrics == Init /\ [][NextMetrics]_vars

\* Database files left by older versions: a memories table of the first
\* schema, of the schema with embeddings or of the current one, and no ledger,
\* a ledger keyed by key alone, or the current ledger; with some rows.
LegacyMemoryRow(columns, id) ==
    [c \in columns |->
        IF c = "id" THEN id
        ELSE IF c = "content" THEN (IF id = "m1" THEN "alpha" ELSE "beta")
        ELSE IF c = "category" THEN (IF id = "m1" THEN NULL ELSE "fact")
        ELSE IF c = "scope_id" THEN (IF id = "m1" THEN NULL ELSE "A")
        ELSE IF c = "idempotency_key" THEN (IF id = "m1" THEN NULL ELSE "k2")
        ELSE IF c \in {"created_at", "updated_at", "last_accessed"} THEN "day0"
        ELSE IF c = "access_count" THEN "1"
        ELSE IF c = "strength" THEN "1.0"
        ELSE NULL]

LegacyMemoryTables ==
    {Table(columns, <<"id">>, {LegacyMemoryRow(columns, id) : id \in ids}) :
        columns \in {FirstMemoryColumns,
                     FirstMemoryColumns \cup {"embedding"},
                     CurrentMemoryColumns},
        ids \in SUBSET {"m1", "m2"}}

LegacyLedgerRow(key) ==
    [key |-> key, operation |-> "remember",
     scope_id |-> IF key = "k1" THEN NULL ELSE "A",
     created_at |-> "day0",
     result_json |-> IF key = "k1" THEN "m1" ELSE "m2"]

CurrentLedgerRow(scope_id) ==
    [key |-> "k1", operation |-> "remember",
     scope_key |-> CoalesceScope(scope_id), scope_id |-> scope_id,
     created_at |-> "day0",
     result_json |-> IF scope_id = NULL THEN "m1" ELSE "m2"]

LegacyLedgerTables ==
    {NIL}
    \cup {Table(LegacyLedgerColumns, LegacyPrimaryKey,
                {LegacyLedgerRow(key) : key \in keys}) : keys \in SUBSET {"k1", "k2"}}
    \cup {Table(CurrentLedgerColumns, CompositePrimaryKey,
                {CurrentLedgerRow(sc) : sc \in scopes}) : scopes \in SUBSET {NULL, "A"}}

\* The first schema had no memories_fts; later ones kept it by triggers.
LegacyDatabases ==
    UNION {{[open |-> FALSE, opens |-> 0, memories |-> m, idempotency_ledger |-> l,
             memories_fts |-> f] :
                l \in LegacyLedgerTables,
                f \in {NIL, FtsTable({FtsEntry(r) : r \in m.rows})}} :
           m \in LegacyMemoryTables}

InitMigrate ==
    /\ InitStore
    /\ database \in LegacyDatabases
    /\ ret = NoRet

NextMigrate ==
    \/ InitDatabase
    \/ CloseDatabase

SpecMigrate == InitMigrate /\ [][NextMigrate]_vars

\* Keyed remembers without upsert, retried, over a ledger whose rows may be
\* damaged.
LedgerInputs ==
    {i \in RememberInputs :
        /\ ~i.upsert
        /\ i.idempotency_key # NULL
        /\ i.content = "alpha"
        /\ i.scope_id # "B"}

NextLedger ==
    \/ \E input \in LedgerInputs : RememberReplay(input)
    \/ \E input \in LedgerInputs : RememberBeginCreate(input)
    \/ \E slot \in Slots, embedOk \in BOOLEAN : RememberFinishCreate(slot, embedOk)
    \/ \E pk \in DOMAIN ledger : CorruptLedgerRow(pk)

SpecLedger == Init /\ [][NextLedger]_vars

\* Keyed remembers, with and without upsert, in a process that may die at any
\* point of a call and is then started again.
CrashInputs ==
    {i \in RememberInputs :
        /\ i.idempotency_key = "k1"
        /\ i.content = "alpha"
        /\ i.scope_id # "B"}

NextCrash ==
    \/ \E input \in CrashInputs : RememberReplay(input)
    \/ \E input \in CrashInputs : RememberBeginUpdate(input)
    \/ \E input \in CrashInputs : RememberBeginCreate(input)
    \/ \E slot \in Slots, embedOk \in BOOLEAN : RememberFinishUpdate(slot, embedOk)
    \/ \E slot \in Slots, embedOk \in BOOLEAN : RememberFinishCreate(slot, embedOk)
    \/ \E slot \in Slots, done \in 0..3, embedOk \in BOOLEAN :
          RememberCrash(slot, done, embedOk)

SpecCrash == Init /\ [][NextCrash]_vars

\* A process about to start, with each ENGRAM_ENABLE_* variable unset, "0" or
\* "1" and each flag absent from the config file, true or false in it.
InitConfig ==
    /\ InitStore
    /\ database = initDatabase(NewDatabase)
    /\ ret \in {[NoRet EXCEPT !.op = "loadConfig", !.phase = "await",
                               !.input = [env |-> e, file |-> f]] :
                   e \in [FlagNames -> {NULL, "0", "1"}],
                   f \in [FlagNames -> {NIL, <<TRUE>>, <<FALSE>>}]}

NextConfig == LoadConfig

SpecConfig == InitConfig /\ [][NextConfig]_vars

\* Concurrent callers of getEmbedder(), and the loads they wait for.
NextEmbedder ==
    \/ \E c \in Callers : GetEmbedder(c)
    \/ \E n \in Loads, loaded \in BOOLEAN : LoadSettles(n, loaded)
    \/ \E c \in Callers : GetEmbedderResume(c)
    \/ \E c \in Callers : GetEmbedderShared(c)

SpecEmbedder == Init /\ [][NextEmbedder]_vars

\* The same callers, in a process that also calls resetEmbedder().
NextEmbedderReset ==
    \/ NextEmbedder
    \/ resetEmbedder

SpecEmbedderReset == Init /\ [][NextEmbedderReset]_vars

\* The four flags of the configuration, each on or off.
CapabilityFeatureSets ==
    [scopes : BOOLEAN, idempotency : BOOLEAN,
     contextHydration : BOOLEAN, workItems : BOOLEAN]

\* The server answers capability requests between the writes and the flag
\* changes of a running process.
NextCapabilities ==
    \/ \E f \in CapabilityFeatureSets : SetFeatures(f)
    \/ Capabilities
    \/ ListTools
    \/ \E input \in MetricsRememberInputs : RememberBeginCreate(input)
    \/ \E slot \in Slots, embedOk \in BOOLEAN : RememberFinishCreate(slot, embedOk)

SpecCapabilities == Init /\ [][NextCapabilities]_vars

\* One memory text, stored with or without a key, with every scope field or
\* with none; recalled in every mode, with an empty, a blank and a one-word
\* query, and forgotten, while the scopes flag changes between requests.
StoreScopes ==
    {x \in ScopeInputs : x.scope_id # "A"}

StoreRememberInputs ==
    {i \in RememberInputs :
        /\ i.content = "alpha"
        /\ ~i.upsert
        /\ i.scope_id # "A"}

StoreRecallInputs ==
    {[query |-> q, limit |-> NIL, category |-> NULL, min_strength |-> NIL,
      scope_id |-> x.scope_id, chat_id |-> x.chat_id,
      thread_id |-> x.thread_id, task_id |-> x.task_id] :
        q \in {"", " ", "alpha"}, x \in StoreScopes}

NextStore ==
    \/ \E input \in StoreRememberInputs : RememberReplay(input)
    \/ \E input \in StoreRememberInputs : RememberBeginCreate(input)
    \/ \E slot \in Slots, embedOk \in BOOLEAN : RememberFinishCreate(slot, embedOk)
    \/ \E input \in ForgetInputs : Forget(input)
    \/ \E input \in StoreRecallInputs : RecallFallback(input)
    \/ \E input \in StoreRecallInputs : RecallNoEmbeddings(input)
    \/ \E input \in StoreRecallInputs : RecallBegin(input)
    \/ \E slot \in Slots : RecallFinishSemantic(slot)
    \/ \E slot \in Slots : RecallFinishFTS5(slot)
    \/ \E f \in ScopeFeatureSets : SetFeatures(f)

SpecStore == Init /\ [][NextStore]_vars

-----------------------------------------------------------------------------
(* Properties of remember: idempotent replay, upsert, concurrency *)

\* The rows of mems that carry the key of pair in the scope of pair.
RowsOf(mems, pair) ==
    {i \in DOMAIN mems :
        /\ mems[i].idempotency_key = pair[1]
        /\ normalizeScopeKey(mems[i].scope_id) = pair[2]}

\* A remember with upsert=false has returned, idempotency being enabled.
ReplayReturned(r) ==
    /\ r.op = "remember"
    /\ r.phase = "done"
    /\ r.ok
    /\ ~r.input.upsert
    /\ r.config.idempotency

\* C1 as stated: with idempotency enabled, a remember with upsert=false made
\* after a first successful call with its key and scope returns the id that
\* first call returned (no two calls on that key and scope having overlapped).
C1_ReturnsFirstId ==
    (ReplayReturned(ret) /\ ret.at.first # NULL /\ ret.pair \notin overlapped)
    => ret.id = ret.at.first

\* C1: with idempotency enabled, a remember with upsert=false made after a
\* remember with its key and scope recorded its result returns at once, with
\* the id of the latest result recorded for that key and scope and status
\* "created", and the memories table is left as it was (no row is added).
C1_ReplaysLatestRecorded ==
    [][(/\ ret'.op = "remember"
        /\ ~ret'.input.upsert
        /\ ret'.config.idempotency
        /\ ret'.at.write.id # NULL)
       => /\ ret'.phase = "done"
          /\ ret'.ok
          /\ ret'.id = ret'.at.write.id
          /\ ret'.status = "created"
          /\ memories' = memories]_vars

\* A replay that returned the id of a later write, the first memory forgotten.
C1_Witness ==
    /\ ReplayReturned(ret)
    /\ ret.at.write.id # NULL
    /\ ret.id = ret.at.write.id
    /\ ret.at.first # NULL
    /\ ret.id # ret.at.first
    /\ ret.at.first \notin DOMAIN memories
    /\ ret.pair \notin overlapped

\* C5: two remember calls with the same key and scope and upsert=false that are
\* in flight at once return the same id, and exactly one row carries the key
\* in that scope afterwards.
C5_ConcurrentCallsAgree ==
    (ReplayReturned(ret) /\ ret.peer # NULL)
    => /\ ret.id = ret.peer
       /\ Cardinality(RowsOf(memories, ret.pair)) = 1

\* C6: in a sequence of upserts of one key in one scope (no other call on that
\* key and scope, no two of them overlapping, no forget while one runs), the
\* first upsert since the key's memory was last forgotten returns "created"
\* with a new id, every later one returns "updated" with that id, and exactly
\* one row carries the key in that scope after each.
C6_UpsertChain ==
    [][(/\ ret'.op = "remember"
        /\ ret'.phase = "done"
        /\ ret'.ok
        /\ ret'.input.upsert
        /\ ret'.pair \notin overlapped' \cup plain')
       => /\ IF upsertChain[ret'.pair] = NULL
             THEN ret'.status = "created" /\ ret'.id \notin DOMAIN memories
             ELSE ret'.status = "updated" /\ ret'.id = upsertChain[ret'.pair]
          /\ Cardinality(RowsOf(memories', ret'.pair)) = 1]_vars

\* A later upsert of a chain has returned "updated" with the chain's id.
C6_Witness ==
    /\ ret.op = "remember"
    /\ ret.phase = "done"
    /\ ret.input.upsert
    /\ ret.pair \notin overlapped \cup plain
    /\ ret.status = "updated"
    /\ ret.id = upsertChain[ret.pair]
    /\ RowsOf(memories, ret.pair) = {ret.id}

\* C35: a keyed remember that ran with the idempotency flag disabled writes no
\* ledger row.  With upsert=true it behaves as in the chain of upserts (the
\* first one creates a row that carries the key, a later one updates that
\* row); with upsert=false it creates a new row that does not carry the key.
C35_UpsertWithoutIdempotencyFlag ==
    [][(/\ ret'.op = "remember"
        /\ ret'.phase = "done"
        /\ ret'.ok
        /\ ~ret'.config.idempotency
        /\ ret'.input.idempotency_key # NULL)
       => /\ ledger' = ledger
          /\ IF ret'.input.upsert
             THEN /\ ret'.status = "created"
                     => memories'[ret'.id].idempotency_key = ret'.input.idempotency_key
                  /\ ret'.pair \notin overlapped' \cup plain'
                     => IF upsertChain[ret'.pair] = NULL
                        THEN ret'.status = "created" /\ ret'.id \notin DOMAIN memories
                        ELSE ret'.status = "updated" /\ ret'.id = upsertChain[ret'.pair]
             ELSE /\ ret'.status = "created"
                  /\ ret'.id \notin DOMAIN memories
                  /\ memories'[ret'.id].idempotency_key = NULL]_vars

\* With the flag disabled all along, a second upsert of a key has updated the
\* row the first one created, and the ledger is empty.
C35_Witness ==
    /\ ret.op = "remember"
    /\ ret.phase = "done"
    /\ ret.input.upsert
    /\ ~ret.config.idempotency
    /\ ret.pair \notin overlapped \cup plain
    /\ ret.status = "updated"
    /\ ret.id = upsertChain[ret.pair]
    /\ memories[ret.id].idempotency_key = ret.input.idempotency_key
    /\ DOMAIN ledger = {}

\* With the flag disabled, a second remember without upsert of a key has
\* created a second row, and neither row carries the key.
PlainCallsCreateEachTime ==
    /\ ret.op = "remember"
    /\ ret.phase = "done"
    /\ ~ret.input.upsert
    /\ ~ret.config.idempotency
    /\ ret.input.idempotency_key # NULL
    /\ Cardinality(DOMAIN memories) = 2
    /\ \A id \in DOMAIN memories : memories[id].idempotency_key = NULL
    /\ DOMAIN ledger = {}

\* C36: the id a successful remember returns names a memory that is in the
\* store when the call returns, whatever was remembered and forgotten before,
\* also when the answer comes from the ledger.
C36_ReturnedIdExists ==
    [][(/\ ret'.op = "remember"
        /\ ret'.phase = "done"
        /\ ret'.ok)
       => ret'.id \in DOMAIN memories']_vars

\* The id of a remember that wrote the row itself, on the create path or on
\* the update path of a row that was still there after the await, exists.
WrittenIdExists ==
    [][(/\ ret'.op = "remember"
        /\ ret'.phase = "done"
        /\ ret'.ok
        /\ ~ReplayReturned(ret')
        /\ ret'.status = "updated" => ret'.id \in DOMAIN memories)
       => ret'.id \in DOMAIN memories']_vars

\* C37: decay --apply run right after decay --apply, with no time passing
\* and no other call in between, changes no stored strength.
C37_DecayApplyIdempotent ==
    [][(ret.op = "decay" /\ ret'.op = "decay") => memories' = memories]_vars

\* Run again on the day of the last access of every memory, decay --apply
\* changes nothing.
ReapplyOnAccessDayChangesNothing ==
    [][(/\ ret.op = "decay"
        /\ ret'.op = "decay"
        /\ \A id \in DOMAIN memories : memories[id].last_accessed = now)
       => memories' = memories]_vars

\* C38: prune --dry-run writes nothing to the store, and it lists exactly the
\* memories that prune without --dry-run, run at the same moment with the same
\* threshold, deletes.
C38_DryRunListsWhatPruneDeletes ==
    [][(ret'.op = "prune" /\ ret'.mode = "dry-run" /\ ret'.ok)
       => /\ memories' = memories
          /\ fts' = fts
          /\ ret'.gone = cmdPrune(memories, FALSE, ret'.input.threshold, now).deleted]_vars

\* prune --dry-run writes nothing to the store.
DryRunWritesNothing ==
    [][(ret'.op = "prune" /\ ret'.mode = "dry-run")
       => memories' = memories /\ fts' = fts /\ ledger' = ledger /\ metrics' = metrics]_vars

\* Every memory prune deletes is listed by --dry-run; one that is listed and
\* not deleted has a stored strength at or above the threshold, within 0.001
\* of its decayed strength.
DryRunListsAtLeastWhatPruneDeletes ==
    [][(ret'.op = "prune" /\ ret'.mode = "dry-run" /\ ret'.ok)
       => LET deleted == cmdPrune(memories, FALSE, ret'.input.threshold, now).deleted
          IN /\ deleted \subseteq ret'.gone
             /\ \A id \in ret'.gone \ deleted :
                  /\ memories[id].strength >= ret'.input.threshold
                  /\ ~NeedsUpdate(memories[id], now)]_vars

\* The stored memories that match the query of a recall and pass its scope,
\* category and min_strength filters at time t.
Qualifying(mems, index, config, input, t) ==
    {id \in DOMAIN mems :
        /\ IsBlank(input.query)
              \/ (id \in DOMAIN index /\ FtsMatch(input.query, index[id]))
        /\ applyMemoryFilters(RecallFilters(config, input), mems[id])
        /\ input.category # NULL => mems[id].category = input.category
        /\ Decayed(mems[id], t) >= RecallMinStrength(input)}

\* C39: a recall by an empty query or by full text returns as many memories
\* as its limit when at least that many qualify, and all that qualify when
\* there are fewer.
C39_LimitReachedWhenEnoughQualify ==
    [][(/\ ret'.op = "recall"
        /\ ret'.phase = "done"
        /\ ret'.mode \in {"recent", "fts", "fts_embed_failed"})
       => Len(ret'.memories)
            = Min(RecallLimit(ret'.input),
                  Cardinality(Qualifying(memories, fts, ret'.config, ret'.input, now)))]_vars

\* Such a recall returns no more memories than its limit, each of them
\* qualifies, and it returns as many as its limit when no more than twice
\* the limit match the query and the scope.
LimitReachedWithinTwiceLimit ==
    [][(/\ ret'.op = "recall"
        /\ ret'.phase = "done"
        /\ ret'.mode \in {"recent", "fts", "fts_embed_failed"})
       => LET limit == RecallLimit(ret'.input)
              qualifying == Qualifying(memories, fts, ret'.config, ret'.input, now)
              unfiltered ==
                  Qualifying(memories, fts, ret'.config,
                             [ret'.input EXCEPT !.category = NULL, !.min_strength = <<0>>],
                             now)
          IN /\ Len(ret'.memories) <= limit
             /\ Returned(ret') \subseteq qualifying
             /\ Cardinality(unfiltered) <= 2 * limit
                  => Len(ret'.memories) = Min(limit, Cardinality(qualifying))]_vars

\* C40: under any interleaving of start, stop and restart commands, at most
\* one daemon process is alive at a time, and the PID file, when present after
\* a command returns, names that live process.
C40_OneDaemonUnderInterleaving ==
    /\ Cardinality(Alive(daemon)) <= 1
    /\ (ret.op = "daemon" /\ ret.phase = "done" /\ daemon.pidFile # NIL)
          => Alive(daemon) = {daemon.pidFile[1]}

\* As long as the commands ran one after the other, at most one server
\* process exists and a PID file left by a command names it.
OneDaemonWhenCommandsRunInTurn ==
    ~daemon.overlapped
       => /\ Cardinality(Alive(daemon)) <= 1
          /\ (ret.op = "daemon" /\ ret.phase = "done" /\ daemon.pidFile # NIL)
                => Alive(daemon) = {daemon.pidFile[1]}

\* stop sends SIGKILL only to a process that outlived SIGTERM and the wait,
\* and leaves no PID file.
StopKillsOnlySurvivorsAndRemovesPidFile ==
    [][(/\ ret'.op = "daemon"
        /\ ret'.mode \in {"SIGTERM", "SIGKILL"})
       => LET pid == daemon.cmds[ret'.input.command].pid
          IN /\ pid \in daemon.term
             /\ ret'.mode = "SIGKILL" <=> isProcessRunning(daemon, pid)
             /\ ~isProcessRunning(daemon', pid)
             /\ daemon'.pidFile = NIL]_vars

\* C9: a remember with upsert=true and no idempotency_key returns the error
\* "upsert requires idempotency_key" (HTTP 400) at once, and writes no memory
\* row, no index row, no metric and no ledger row.
C9_UpsertRequiresKey ==
    [][(/\ ret'.op = "remember"
        /\ ret'.input.upsert
        /\ ret'.input.idempotency_key = NULL)
       => /\ ret'.phase = "done"
          /\ ~ret'.ok
          /\ ret'.error = "upsert requires idempotency_key"
          /\ ret'.http = 400
          /\ UNCHANGED <<memories, fts, metrics, ledger, nextId, inflight>>]_vars

\* The keyless upsert has been refused while the store held a memory.
C9_Witness ==
    /\ ret.op = "remember"
    /\ ret.input.upsert
    /\ ret.input.idempotency_key = NULL
    /\ ~ret.ok
    /\ ret.http = 400
    /\ memories # EmptyTable

\* C10 as stated: after a memory was created and later updated through upsert
\* with key k, a remember with key k and upsert=false returns that memory's id
\* with status "created" and leaves the memories as they were.
C10_ReplayAfterUpdate ==
    [][(/\ ret'.op = "remember"
        /\ ret'.phase = "done"
        /\ ~ret'.input.upsert
        /\ ret'.at.done.status = "updated")
       => /\ ret'.id = ret'.at.done.id
          /\ ret'.status = "created"
          /\ memories' = memories]_vars

\* C10: with idempotency enabled both when the upsert updated the memory of
\* key k (so that the update was recorded) and now, a remember with key k and
\* upsert=false returns that memory's id with status "created", never
\* "updated", and leaves the memories as they were.
C10_ReplayAfterRecordedUpdate ==
    [][(/\ ret'.op = "remember"
        /\ ~ret'.input.upsert
        /\ ret'.config.idempotency
        /\ ret'.at.done.status = "updated"
        /\ ret'.at.write = ret'.at.done)
       => /\ ret'.phase = "done"
          /\ ret'.id = ret'.at.done.id
          /\ ret'.status = "created"
          /\ memories' = memories]_vars

\* A replay has returned "created" for a memory an upsert had updated.
C10_Witness ==
    /\ ReplayReturned(ret)
    /\ ret.at.done.status = "updated"
    /\ ret.at.write = ret.at.done
    /\ ret.status = "created"
    /\ ret.id \in DOMAIN memories
    /\ memories[ret.id].content = "alpha beta"

\* A remember with a key has acted, scopes and idempotency being enabled.
ScopedKeyedRemember(r) ==
    /\ r.op = "remember"
    /\ r.ok
    /\ r.config.scopes
    /\ r.config.idempotency
    /\ r.input.idempotency_key # NULL

\* C11: with scopes and idempotency enabled, a key identifies a write within
\* its scope only.  A remember whose key has no result recorded in its own
\* scope is never answered by a replay, whatever other scopes hold under that
\* key; a replay returns a memory of the request's scope; and an upsert
\* updates a memory of the request's scope and leaves every other row alone.
C11_KeyIsolatedByScope ==
    [][ScopedKeyedRemember(ret')
       => /\ (~ret'.input.upsert /\ ret'.at.write.id = NULL)
               => ~(ret'.phase = "done" /\ memories' = memories)
          /\ (ret'.phase = "done" /\ ret'.id \in DOMAIN memories)
               => memories[ret'.id].scope_id = ret'.input.scope_id
          /\ (ret'.phase = "done" /\ ret'.status = "updated")
               => \A i \in DOMAIN memories \ {ret'.id} :
                     i \in DOMAIN memories' /\ memories'[i] = memories[i]]_vars

\* A remember has created a memory of its own under a key that another scope
\* already held, both scopes now having their row and their ledger entry.
C11_Witness ==
    /\ ScopedKeyedRemember(ret)
    /\ ret.phase = "done"
    /\ ret.status = "created"
    /\ ret.pair \notin overlapped
    /\ ret.id \in DOMAIN memories
    /\ \E j \in DOMAIN memories \ {ret.id} :
         /\ memories[j].idempotency_key = ret.input.idempotency_key
         /\ memories[j].scope_id # memories[ret.id].scope_id
         /\ lastWrite[<<ret.input.idempotency_key,
                        normalizeScopeKey(memories[j].scope_id)>>].id = j
    /\ lastWrite[ret.pair].id = ret.id

\* The request input without its scope fields.
ScopeFields == {"scope_id", "chat_id", "thread_id", "task_id"}
StripScope(input) ==
    [f \in DOMAIN input |-> IF f \in ScopeFields THEN NULL ELSE input[f]]

\* The call that returned in this step had been suspended in its await.
Resumed == \E slot \in Slots : inflight[slot] # Idle /\ inflight'[slot] = Idle

\* C12: with the scopes flag disabled a remember, recall or forget does what
\* the same request without scope_id, chat_id, thread_id and task_id does:
\* the ledger key is the global sentinel, a created row has null scope
\* columns, a replay reads the global ledger row, a recall filters on nothing
\* but the query, the strength and the category, and a forget deletes by id.
C12_ScopeFieldsIgnoredWhenDisabled ==
    [][(ret'.op # "none" /\ ~ret'.config.scopes)
       => LET input == ret'.input
              config == ret'.config
              bare == StripScope(input)
              Wanted(i) ==
                  /\ Decayed(memories[i], now) >= RecallMinStrength(input)
                  /\ input.category # NULL => memories[i].category = input.category
          IN /\ ret'.op = "remember"
                  => /\ ret'.pair = <<input.idempotency_key, GlobalScopeKey>>
                     /\ ret'.pair = PairOf(config, bare)
             /\ (ret'.op = "remember" /\ ret'.phase = "done" /\ Resumed)
                  => /\ ret'.id \in DOMAIN memories'
                     /\ memories'[ret'.id].scope_id = NULL
                     /\ memories'[ret'.id].chat_id = NULL
                     /\ memories'[ret'.id].thread_id = NULL
                     /\ memories'[ret'.id].task_id = NULL
                     /\ memories' = RememberCreate(memories, ret'.id, config, bare,
                                                   memories'[ret'.id].embedding, now)
                     /\ ledger' = LedgerAfterCreate(ledger, config, bare, ret'.id)
                     /\ \A pk \in DOMAIN ledger' \ DOMAIN ledger :
                            pk[3] = GlobalScopeKey /\ ledger'[pk].scope_id = NULL
             /\ (ret'.op = "remember" /\ ret'.phase = "done" /\ ~Resumed)
                  => /\ memories' = memories
                     /\ ledger' = ledger
                     /\ <<input.idempotency_key, "remember", GlobalScopeKey>>
                            \in DOMAIN ledger
                     /\ ret'.id = JsonParse(ledger[<<input.idempotency_key, "remember",
                                                     GlobalScopeKey>>].result_json).id
             /\ (ret'.op = "recall" /\ ret'.phase = "await")
                  => \E slot \in Slots :
                        /\ inflight[slot] = Idle
                        /\ inflight'[slot] # Idle
                        /\ {inflight'[slot].snapshot[k].id :
                                k \in DOMAIN inflight'[slot].snapshot}
                             = {i \in DOMAIN memories : memories[i].embedding # NIL}
             /\ (ret'.op = "recall" /\ ret'.phase = "done" /\ ret'.mode = "recent"
                    /\ Cardinality(DOMAIN memories) <= RecallLimit(input))
                  => Returned(ret') = {i \in DOMAIN memories : Wanted(i)}
             /\ (ret'.op = "recall" /\ ret'.phase = "done"
                    /\ ret'.mode \in {"fts", "fts_embed_failed"}
                    /\ Cardinality(DOMAIN memories) <= RecallLimit(input))
                  => Returned(ret') = {i \in DOMAIN memories :
                                          FtsMatch(input.query, fts[i]) /\ Wanted(i)}
             /\ ret'.op = "forget"
                  => /\ ret'.deleted <=> input.id \in DOMAIN memories
                     /\ memories' = RemoveRows(memories, {input.id} \cap DOMAIN memories)
                     /\ ForgetScope(config, input) = ForgetScope(config, bare)]_vars

\* With the flag disabled, a recall that names scope "B" has returned a memory
\* whose scope columns are null.
C12_Witness ==
    /\ ret.op = "recall"
    /\ ret.phase = "done"
    /\ ~ret.config.scopes
    /\ ret.input.scope_id = "B"
    /\ ret.input.chat_id = "chat1"
    /\ \E i \in Returned(ret) \cap DOMAIN memories : memories[i].scope_id = NULL

\* C25: the ledger holds one row for each (key, operation, scope_key), its
\* scope_key being the normalised scope_id, and at most one memory carries
\* each idempotency key in each scope.
C25_OneRowPerKeyAndScope ==
    /\ \A pk \in DOMAIN ledger : pk[3] = normalizeScopeKey(ledger[pk].scope_id)
    /\ \A pair \in Pairs : Cardinality(RowsOf(memories, pair)) <= 1

-----------------------------------------------------------------------------
(* Properties of forget *)

C14_ScopedForgetNeedsMatch ==
    [][(/\ ret'.op = "forget"
        /\ ret'.config.scopes
        /\ ret'.input.scope_id # NULL)
       => /\ ret'.deleted <=> /\ ret'.input.id \in DOMAIN memories
                              /\ memories[ret'.input.id].scope_id = ret'.input.scope_id
          /\ memories' = IF ret'.deleted
                         THEN RemoveRows(memories, {ret'.input.id})
                         ELSE memories]_vars

\* A forget in a scope has left a memory of its id, stored in another scope
\* or in none, in the store.
C14_Witness ==
    /\ ret.op = "forget"
    /\ ret.config.scopes
    /\ ret.input.scope_id # NULL
    /\ ~ret.deleted
    /\ ret.input.id \in DOMAIN memories
    /\ memories[ret.input.id].scope_id # ret.input.scope_id

-----------------------------------------------------------------------------
(* Properties of the recall paths *)

C18_EmbeddingFailureNotFatal ==
    [][(\E slot \in Slots : inflight[slot] # Idle /\ inflight'[slot] = Idle)
       => /\ ret'.phase = "done"
          /\ ret'.ok
          /\ ret'.error = NULL
          /\ ret'.op = "remember"
               => /\ ret'.id \in DOMAIN memories'
                  /\ memories'[ret'.id].content = ret'.input.content
                  /\ memories'[ret'.id].embedding
                         \in {NIL, EmbedVector(ret'.input.content)}
          /\ ret'.op = "recall"
               => ret'.mode \in {"semantic", "fts_embed_failed"}]_vars

\* A recall whose query embedding failed has returned, from the full-text
\* search, a memory that was stored without a vector because its own
\* embedding had failed.
C18_Witness ==
    /\ ret.op = "recall"
    /\ ret.phase = "done"
    /\ ret.ok
    /\ ret.mode = "fts_embed_failed"
    /\ \E i \in Returned(ret) \cap DOMAIN memories : memories[i].embedding = NIL

\* The row of memory id as the recall that returns in this step read it: in
\* the semantic mode the row read before the await, else the stored row.
RowRead(id) ==
    IF ret'.mode = "semantic"
    THEN LET slot == CHOOSE s \in Slots : inflight[s] # Idle /\ inflight'[s] = Idle
             snapshot == inflight[slot].snapshot
         IN snapshot[CHOOSE k \in DOMAIN snapshot : snapshot[k].id = id]
    ELSE memories[id]

IdRank(id) == CHOOSE n \in 1..5 : randomUUID(n) = id

\* C20: a semantic result is ordered by similarity to the query, descending;
\* of two memories with equal similarity the one accessed later comes first,
\* and of two accessed at the same time the one with the lower id.
C20_SemanticOrderWithTieBreak ==
    [][(ret'.op = "recall" /\ ret'.phase = "done" /\ ret'.mode = "semantic")
       => \A k \in 1..(Len(ret'.memories) - 1) :
             LET a == ret'.memories[k]
                 b == ret'.memories[k + 1]
                 ra == RowRead(a.id)
                 rb == RowRead(b.id)
             IN \/ a.relevance > b.relevance
                \/ /\ a.relevance = b.relevance
                   /\ \/ ra.last_accessed > rb.last_accessed
                      \/ /\ ra.last_accessed = rb.last_accessed
                         /\ IdRank(a.id) < IdRank(b.id)]_vars

\* What the sort gives: similarity never increases down a semantic result.
SemanticSimilarityDescending ==
    [][(ret'.op = "recall" /\ ret'.phase = "done" /\ ret'.mode = "semantic")
       => \A k \in 1..(Len(ret'.memories) - 1) :
             ret'.memories[k].relevance >= ret'.memories[k + 1].relevance]_vars

\* C21: the list a recall with an empty or blank query returns is ordered by
\* effective strength, descending, and among equal strengths by last_accessed,
\* most recent first; the relevance of each memory is its effective strength.
C21_RecentOrderedByEffectiveStrength ==
    [][(ret'.op = "recall" /\ ret'.phase = "done" /\ ret'.mode = "recent")
       => /\ \A k \in DOMAIN ret'.memories :
                ret'.memories[k].relevance = ret'.memories[k].strength
          /\ \A k \in 1..(Len(ret'.memories) - 1) :
                LET a == ret'.memories[k]
                    b == ret'.memories[k + 1]
                IN \/ a.strength > b.strength
                   \/ /\ a.strength = b.strength
                      /\ memories[a.id].last_accessed >= memories[b.id].last_accessed]_vars

\* What the query gives: the list is in the order of the stored strength,
\* then of last_accessed, and each relevance is the effective strength.
RecentOrderedByStoredStrength ==
    [][(ret'.op = "recall" /\ ret'.phase = "done" /\ ret'.mode = "recent")
       => /\ \A k \in DOMAIN ret'.memories :
                ret'.memories[k].relevance = ret'.memories[k].strength
          /\ \A k \in 1..(Len(ret'.memories) - 1) :
                LET a == memories[ret'.memories[k].id]
                    b == memories[ret'.memories[k + 1].id]
                IN \/ a.strength > b.strength
                   \/ /\ a.strength = b.strength
                      /\ a.last_accessed >= b.last_accessed]_vars

-----------------------------------------------------------------------------
(* Properties of the metrics summary *)

\* The recall events of log, those of one session when a session is given;
\* emptyIsNone says whether the empty string stands for no session.
RecallEvents(log, session_id, emptyIsNone) ==
    {m \in BagToSet(log) :
        /\ m.event = "recall"
        /\ (session_id # NULL /\ (emptyIsNone => session_id # ""))
              => SessionOf(m) = session_id}

\* How many of the events in rows log holds.
Tally(log, rows) ==
    LET RECURSIVE Sum(_)
        Sum(S) == IF S = {} THEN 0
                  ELSE LET m == CHOOSE x \in S : TRUE
                       IN CopiesIn(m, log) + Sum(S \ {m})
    IN Sum(rows)

\* One step of the program, seen from the log and the summary.
SummaryCountsRecallsStep(emptyIsNone) ==
    /\ (ret'.op = "recall" /\ ret'.phase = "done")
         => \E m \in BagToSet(metrics') :
               /\ metrics' = metrics (+) SetToBag({m})
               /\ m.event = "recall"
               /\ m.result_count = <<Len(ret'.memories)>>
               /\ (m.was_fallback = <<1>>) <=> (ret'.mode = "recent")
               /\ m.was_fallback \in {NIL, <<1>>}
               /\ SessionOf(m) = ret'.input.session_id
    /\ ~(ret'.op = "recall" /\ ret'.phase = "done")
         => \A m \in BagToSet(metrics) \cup BagToSet(metrics') :
               m.event = "recall" => CopiesIn(m, metrics') = CopiesIn(m, metrics)
    /\ ret'.op = "metrics_summary"
         => LET events == RecallEvents(metrics, ret'.input.session_id, emptyIsNone)
                total == Tally(metrics, events)
                hits == Tally(metrics, {m \in events : m.result_count # <<0>>})
                recent == Tally(metrics, {m \in events : m.was_fallback # NIL})
            IN /\ ret'.summary.total_recalls = total
               /\ total = 0 => /\ ret'.summary.recall_hit_rate = 0
                               /\ ret'.summary.fallback_rate = 0
               /\ total > 0 => /\ ret'.summary.recall_hit_rate
                                      = (hits * 1000) \div total
                               /\ ret'.summary.fallback_rate
                                      = (recent * 1000) \div total

\* C27: every recall that returns adds one recall event to the log, with the
\* number of memories it returned, the fallback mark exactly when it answered
\* in recent mode, and its session; nothing else adds or removes a recall
\* event.  The summary reports total_recalls as the number of recall events,
\* recall_hit_rate as the share of them with a result, fallback_rate as the
\* share of them with the fallback mark, and rates of 0 when there are none;
\* with a session argument, whatever string it is, only the events of that
\* session are counted.
C27_SummaryCountsRecalls ==
    [][SummaryCountsRecallsStep(FALSE)]_vars

\* C27, amended: the same, where only a non-empty session argument restricts
\* the summary; the empty string counts the events of every session.
C27_SummaryCountsNamedSession ==
    [][SummaryCountsRecallsStep(TRUE)]_vars

\* The summary of session s1 was read after a recall of s1 that found nothing
\* in recent mode and a recall of another session: one recall, no hit, all
\* fallback.
C27_Witness ==
    /\ ret.op = "metrics_summary"
    /\ ret.input.session_id = "s1"
    /\ ret.summary.total_recalls = 1
    /\ ret.summary.recall_hit_rate = 0
    /\ ret.summary.fallback_rate = 1000
    /\ getMetricsSummary(metrics, NULL).total_recalls > 1

-----------------------------------------------------------------------------
(* Properties of the ledger lookup *)

\* The ledger rows whose result cannot be parsed
CorruptRows(led) == {pk \in DOMAIN led : JsonParseThrows(led[pk].result_json)}

\* C32: for a ledger row whose stored result cannot be parsed, the lookup
\* answers something other than what it answers when there is no entry; and a
\* remember whose key and scope have such a row goes on to the create path.
C32_ParseFailureIsAnError ==
    [][/\ \A pk \in CorruptRows(ledger) :
             getIdempotencyResult(ledger, pk[1], pk[2], ledger[pk].scope_id)
                 # getIdempotencyResult(EmptyTable, pk[1], pk[2], ledger[pk].scope_id)
       /\ (/\ ret'.op = "remember"
           /\ ret'.input \in LedgerInputs
           /\ <<ret'.input.idempotency_key, "remember",
                normalizeScopeKey(ScopeIdForIdempotency(features, ret'.input))>>
                 \in CorruptRows(ledger)
           /\ inflight' # inflight
           /\ \E s \in Slots : inflight[s] = Idle /\ inflight'[s] # Idle)
             => ret'.phase = "await"]_vars

\* A remember over a damaged row takes the create path and, when it returns,
\* has created a new memory and rewritten the row.
CorruptRowIsNoCachedResult ==
    [][(/\ ret'.op = "remember"
        /\ ret'.phase = "done"
        /\ <<ret'.input.idempotency_key, "remember",
             normalizeScopeKey(ScopeIdForIdempotency(features, ret'.input))>>
              \in CorruptRows(ledger))
          => /\ ret'.status = "created"
             /\ ret'.id \notin DOMAIN memories
             /\ ret'.id \in DOMAIN memories'
             /\ CorruptRows(ledger') = CorruptRows(ledger)
                    \ {<<ret'.input.idempotency_key, "remember",
                         normalizeScopeKey(ScopeIdForIdempotency(features, ret'.input))>>}]_vars

-----------------------------------------------------------------------------
(* Properties of an interrupted remember *)

\* The memories stored under the key and scope of input
StoredUnderKey(mems, config, input) ==
    {i \in DOMAIN mems :
        /\ mems[i].idempotency_key = input.idempotency_key
        /\ mems[i].scope_id = ScopeIdForIdempotency(config, input)}

-----------------------------------------------------------------------------
(* Properties of the configuration *)

\* C34: a process started with no ENGRAM_ENABLE_* variable set and no flag in
\* the config file has its four feature flags disabled.
C34_FlagsDefaultToDisabled ==
    (/\ ret.op = "loadConfig"
     /\ ret.phase = "done"
     /\ \A flag \in FlagNames :
           ret.input.env[flag] = NULL /\ ret.input.file[flag] = NIL)
       => \A flag \in FlagNames : ~ret.config[flag] /\ ~features[flag]

\* What the code does instead: a flag is disabled only by the variable "0",
\* or by false in the config file when the variable is unset.
FlagsDefaultToEnabled ==
    (ret.op = "loadConfig" /\ ret.phase = "done")
       => \A flag \in FlagNames :
             ret.config[flag] <=> ~(\/ ret.input.env[flag] = "0"
                                    \/ /\ ret.input.env[flag] = NULL
                                       /\ ret.input.file[flag] = <<FALSE>>)

-----------------------------------------------------------------------------
(* Properties of the migrations *)

\* Row r as it reads in the columns of columns
Restricted(r, columns) == [c \in columns |-> r[c]]

\* C30: opening a database file keeps every memories row, with NULL in the
\* columns it gains, and every idempotency-ledger row, with scope_key equal to
\* its scope_id or '__global__' when it has none; the memories table ends
\* with the full current column set and the ledger with the current columns
\* and the primary key (key, operation, scope_key); opening a file that was
\* opened before changes neither table.
C30_MigrationKeepsRows ==
    [][(database'.open /\ ~database.open)
          => LET old == database.memories
                 new == database'.memories
                 oldLedger == database.idempotency_ledger
                 newLedger == database'.idempotency_ledger
             IN /\ new.columns = CurrentMemoryColumns
                /\ Cardinality(new.rows) = Cardinality(old.rows)
                /\ {Restricted(r, old.columns) : r \in new.rows} = old.rows
                /\ \A r \in new.rows :
                      \A c \in new.columns \ old.columns : r[c] = NULL
                /\ newLedger.columns = CurrentLedgerColumns
                /\ newLedger.pk = <<"key", "operation", "scope_key">>
                /\ oldLedger = NIL => newLedger.rows = {}
                /\ oldLedger # NIL =>
                      /\ Cardinality(newLedger.rows) = Cardinality(oldLedger.rows)
                      /\ {Restricted(r, oldLedger.columns) : r \in newLedger.rows}
                            = oldLedger.rows
                      /\ \A r \in newLedger.rows :
                            r.scope_key = IF r.scope_id = NULL THEN "__global__"
                                          ELSE r.scope_id
                /\ database.opens > 0 =>
                      /\ new = old
                      /\ newLedger = oldLedger]_vars

\* A file of the first schema with two memories and a ledger keyed by key
\* alone, one row without scope and one with, has been opened, closed and
\* opened again.
C30_Witness ==
    /\ database.open
    /\ database.opens = 2
    /\ Cardinality(database.memories.rows) = 2
    /\ \E r \in database.memories.rows : r.id = "m2" /\ r.scope_id = NULL
    /\ \E r \in database.idempotency_ledger.rows :
          r.key = "k1" /\ r.scope_key = "__global__" /\ r.scope_id = NULL
    /\ \E r \in database.idempotency_ledger.rows :
          r.key = "k2" /\ r.scope_key = "A" /\ r.scope_id = "A"

\* C31, for a database migrated from an older schema: once the file is open,
\* the full-text index holds exactly one entry per memory row, carrying that
\* row's content.
C31_IndexMatchesRowsAfterMigration ==
    database.open
        => /\ database.memories_fts # NIL
           /\ database.memories_fts
                 = FtsTable({FtsEntry(r) : r \in database.memories.rows})

\* In a store that had its index from the start, the index holds one entry
\* per memory row, with the row's current content.
IndexInStepWithTable ==
    /\ DOMAIN fts = DOMAIN memories
    /\ \A i \in DOMAIN memories : fts[i] = memories[i].content

\* A file whose index existed before the opening is in step after it.
IndexKeptWhenPresent ==
    [][(database'.open /\ ~database.open /\ database.memories_fts # NIL)
          => database'.memories_fts = database.memories_fts]_vars

-----------------------------------------------------------------------------
(* Properties of the embedder *)

LoadsInProgress(e) == {n \in Loads : e.loads[n] = "pending"}

\* At most one load is in progress.
OneLoadAtATime == Cardinality(LoadsInProgress(embeddings)) <= 1

\* C29: at most one model load is in progress at a time; a caller that
\* arrives while a load is in progress starts no load and is handed the promise
\* of that load, and a caller that waited for a load receives the outcome of
\* that load, with its pipeline when it succeeded; once a load has succeeded
\* no call starts another load.
C29_SingleSharedLoad ==
    [][/\ Cardinality(LoadsInProgress(embeddings')) <= 1
       /\ \A c \in Callers :
             LET before == embeddings.callers[c]
                 after == embeddings'.callers[c]
             IN /\ (before.pc \in {"idle", "done"} /\ after # before
                        /\ LoadsInProgress(embeddings) # {})
                      => /\ embeddings'.loads = embeddings.loads
                         /\ after.pc = "shared"
                         /\ LoadsInProgress(embeddings) = {after.promise}
                /\ (before.pc \in {"shared", "awaitInit"} /\ after.pc = "done")
                      => /\ after.promise = before.promise
                         /\ after.ok <=> (embeddings.loads[before.promise] = "ok")
                         /\ after.ok => after.value = before.promise
       /\ (\E n \in Loads : embeddings.loads[n] = "ok")
             => LoadsStarted(embeddings') = LoadsStarted(embeddings)]_vars

\* One caller started the first load, another arrived during it and received
\* the same pipeline, and a later call was answered from the cache: one load
\* in all.
C29_Witness ==
    /\ LoadsStarted(embeddings) = 1
    /\ embeddings.loads[1] = "ok"
    /\ embeddings.embedder = 1
    /\ \A c \in Callers : /\ embeddings.callers[c].pc = "done"
                           /\ embeddings.callers[c].ok
                           /\ embeddings.callers[c].value = 1
    /\ \E c \in Callers : embeddings.callers[c].promise = 0
    /\ Cardinality({c \in Callers : embeddings.callers[c].promise = 1}) >= 2

-----------------------------------------------------------------------------
(* Properties of the capability requests *)

ToolNames(tools) == {tools[i] : i \in DOMAIN tools}

\* C28: the answer to a capabilities or list_tools request contains
\* context_hydrate exactly when the context_hydration flag is enabled in the
\* state the request is made in, whatever the flag was before, and always
\* contains remember, recall, forget and capabilities.
C28_ToolListFollowsFlag ==
    [][ret'.op \in {"capabilities", "list_tools"}
          => /\ ("context_hydrate" \in ToolNames(ret'.tools))
                   <=> ContextHydrationOf(features)
             /\ {"remember", "recall", "forget", "capabilities"}
                   \subseteq ToolNames(ret'.tools)]_vars

\* A list_tools request answered without context_hydrate: the flag was turned
\* off after the process had started with it on.
C28_Witness ==
    /\ ret.op = "list_tools"
    /\ ~ContextHydrationOf(features)
    /\ ContextHydrationOf(StartupConfig)
    /\ "context_hydrate" \notin ToolNames(ret.tools)
    /\ Len(ret.tools) = 4

-----------------------------------------------------------------------------
(* Properties of the decay function *)

\* C26: for one access count and one stored strength, the effective strength
\* after the longer time is never above the one after the shorter time, on
\* either side of the just-accessed rule.
C26_DecayMonotoneInTime ==
    (ret.op = "strength" /\ ret.phase = "done")
    => ret.memories[2] <= ret.memories[1]

\* What holds: the effective strength never increases with time once the
\* just-accessed rule no longer applies, and for an access count of 1.
DecayMonotoneAfterRule ==
    (ret.op = "strength" /\ ret.phase = "done"
        /\ (ret.input.days1 >= 1 \/ ret.input.access_count = 1))
    => ret.memories[2] <= ret.memories[1]

-----------------------------------------------------------------------------
(* Invariants of the stored memories *)

\* C22: every stored memory has created_at <= updated_at <= last_accessed.
C22_TimestampsMonotone ==
    \A i \in DOMAIN memories :
        /\ memories[i].created_at <= memories[i].updated_at
        /\ memories[i].updated_at <= memories[i].last_accessed

C24_AccessCountCountsHits ==
    [][\A i \in DOMAIN memories' :
          memories'[i].access_count =
              IF i \notin DOMAIN memories THEN 1
              ELSE IF ret'.op = "recall" /\ ret'.phase = "done" /\ i \in Returned(ret')
                   THEN memories[i].access_count + 1
                   ELSE memories[i].access_count]_vars

\* A recall has returned a memory for the second time since it was created.
C24_Witness ==
    /\ ret.op = "recall"
    /\ ret.phase = "done"
    /\ \E i \in Returned(ret) \cap DOMAIN memories : memories[i].access_count = 3

\* What holds of the timestamps: neither precedes created_at.
TimestampsAfterCreation ==
    \A i \in DOMAIN memories :
        /\ memories[i].created_at <= memories[i].updated_at
        /\ memories[i].created_at <= memories[i].last_accessed

-----------------------------------------------------------------------------
(* Properties of the upsert update *)

\* C7: an upsert that updates a stored memory leaves its id, created_at,
\* access_count, strength, last_accessed, scope_id, chat_id, thread_id and
\* task_id as they were and sets updated_at to the time of the update.
C7_UpdatePreservesLifecycle ==
    [][(/\ ret'.op = "remember"
        /\ ret'.phase = "done"
        /\ ret'.status = "updated"
        /\ ret'.id \in DOMAIN memories)
       => /\ ret'.id \in DOMAIN memories'
          /\ memories'[ret'.id].id = memories[ret'.id].id
          /\ memories'[ret'.id].created_at = memories[ret'.id].created_at
          /\ memories'[ret'.id].access_count = memories[ret'.id].access_count
          /\ memories'[ret'.id].strength = memories[ret'.id].strength
          /\ memories'[ret'.id].last_accessed = memories[ret'.id].last_accessed
          /\ memories'[ret'.id].scope_id = memories[ret'.id].scope_id
          /\ memories'[ret'.id].chat_id = memories[ret'.id].chat_id
          /\ memories'[ret'.id].thread_id = memories[ret'.id].thread_id
          /\ memories'[ret'.id].task_id = memories[ret'.id].task_id
          /\ memories'[ret'.id].updated_at = now]_vars

\* An update, a day after the creation, of a scoped memory that had been
\* recalled and decayed.
C7_Witness ==
    /\ ret.op = "remember"
    /\ ret.phase = "done"
    /\ ret.status = "updated"
    /\ ret.before # NIL
    /\ ret.before.access_count > 1
    /\ ret.before.strength < DefaultStrength
    /\ ret.before.created_at < now
    /\ ret.before.chat_id # NULL
    /\ ret.id \in DOMAIN memories
    /\ memories[ret.id].updated_at = now
    /\ memories[ret.id].content # ret.before.content

\* C8: an upsert update of a stored memory replaces content, category,
\* metadata and embedding with what the call supplies: a category or metadata
\* the call omits becomes null, and the embedding becomes that of the new
\* content or, the embedding having failed, absent; never that of the old
\* content.
C8_UpdateReplacesContent ==
    [][(/\ ret'.op = "remember"
        /\ ret'.phase = "done"
        /\ ret'.status = "updated"
        /\ ret'.id \in DOMAIN memories)
       => /\ ret'.id \in DOMAIN memories'
          /\ memories'[ret'.id].content = ret'.input.content
          /\ memories'[ret'.id].category = ret'.input.category
          /\ memories'[ret'.id].metadata_json =
                 IF ret'.input.metadata = NULL THEN NIL
                 ELSE JsonStringify(ret'.input.metadata)
          /\ memories'[ret'.id].embedding \in {NIL, EmbedVector(ret'.input.content)}
          /\ (/\ ret'.input.content # memories[ret'.id].content
              /\ memories[ret'.id].embedding # NIL)
             => memories'[ret'.id].embedding # memories[ret'.id].embedding]_vars

\* An update that omitted category and metadata and whose embedding failed,
\* of a memory that had all three.
C8_Witness ==
    /\ ret.op = "remember"
    /\ ret.phase = "done"
    /\ ret.status = "updated"
    /\ ret.before # NIL
    /\ ret.before.category # NULL
    /\ ret.before.metadata_json # NIL
    /\ ret.before.embedding # NIL
    /\ ret.input.category = NULL
    /\ ret.input.metadata = NULL
    /\ ret.id \in DOMAIN memories
    /\ memories[ret.id].category = NULL
    /\ memories[ret.id].metadata_json = NIL
    /\ memories[ret.id].embedding = NIL

-----------------------------------------------------------------------------
(* Properties of recall *)

\* C2: a recall step leaves the stored strength, access_count and
\* last_accessed of every memory it does not return as they were; the decayed
\* strength is computed for the answer and never written back.
C2_NonReturnedUntouched ==
    [][ret'.op = "recall"
       => \A i \in DOMAIN memories \ Returned(ret') :
            /\ i \in DOMAIN memories'
            /\ memories'[i].strength = memories[i].strength
            /\ memories'[i].access_count = memories[i].access_count
            /\ memories'[i].last_accessed = memories[i].last_accessed]_vars

\* A recall has returned some memory and not another whose effective strength
\* has decayed below the stored one.
C2_Witness ==
    /\ ret.op = "recall"
    /\ ret.phase = "done"
    /\ Returned(ret) # {}
    /\ \E i \in DOMAIN memories \ Returned(ret) :
         Decayed(memories[i], now) < memories[i].strength

\* C3: after a recall, every memory it returned has stored strength
\* access_boost_strength, an access_count one higher than before, and
\* last_accessed the time of the call.
C3_ReturnedBoosted ==
    [][(ret'.op = "recall" /\ ret'.phase = "done")
       => \A i \in Returned(ret') \cap DOMAIN memories :
            /\ memories'[i].strength = AccessBoostStrength
            /\ memories'[i].access_count = memories[i].access_count + 1
            /\ memories'[i].last_accessed = now]_vars

\* C4 as stated: a recall with scope_id = A returns no memory whose stored
\* scope_id is another value or null.
C4_ScopeIsolation ==
    (ret.op = "recall" /\ ret.phase = "done" /\ ret.input.scope_id # NULL)
    => \A i \in Returned(ret) \cap DOMAIN memories :
         memories[i].scope_id = ret.input.scope_id

\* C4: with the scopes flag enabled, a recall with scope_id = A returns no
\* memory whose stored scope_id is another value or null, in the recent, the
\* semantic and the full-text mode.
C4_ScopeIsolationWhenEnabled ==
    (/\ ret.op = "recall"
     /\ ret.phase = "done"
     /\ ret.config.scopes
     /\ ret.input.scope_id # NULL)
    => \A i \in Returned(ret) \cap DOMAIN memories :
         memories[i].scope_id = ret.input.scope_id

\* A recall in a scope, with no other condition, has returned a memory of the
\* scope and left out a stored memory of another scope or of none.
C4_Witness ==
    /\ ret.op = "recall"
    /\ ret.phase = "done"
    /\ ret.config.scopes
    /\ ret.input.scope_id # NULL
    /\ ret.input.limit = NIL
    /\ ret.input.min_strength = NIL
    /\ Returned(ret) # {}
    /\ \E i \in DOMAIN memories \ Returned(ret) :
         /\ memories[i].scope_id # ret.input.scope_id
         /\ FtsMatch(ret.input.query, memories[i].content)

====
